---- MODULE Spec2Model ----
(***************************************************************************)
(* A model of textify: file eligibility (utils.get_eligible_files), the    *)
(* two per-file pipelines (media.process_audio_video_files and             *)
(* documents.process_document_files), the resource monitor                 *)
(* (system.monitor_resources), the batch driver and the watch-mode event   *)
(* handler (core.main), the capability probes                              *)
(* (system.initialize_system_checks), the Whisper loader and the OCR call  *)
(* (documents.process_document_with_ocr).                                  *)
(*                                                                         *)
(* Paths and file names are Python strings, modelled as sequences of       *)
(* one-character strings so that os.path.splitext, str.lower, slicing and  *)
(* the f-string that builds the marker name are computed, not assumed.     *)
(***************************************************************************)
EXTENDS Integers, Sequences, FiniteSets, TLC

VARIABLES
    fs,               \* the filesystem: file key (path components) -> content
    host,             \* what loading each optional subsystem does on this host
    args,             \* the parsed command line (argparse namespace)
    flags,            \* system.* capability flags after initialize_system_checks
    listing,          \* the result of the last os.listdir call
    mainpc,           \* position of core.main
    eligible,         \* core.main: eligible
    av_files,         \* core.main: av_files
    doc_files,        \* core.main: doc_files
    cur,              \* index of the file the running pipeline loop is at
    model,            \* core.main: model ("None", or the device it was loaded on)
    run,              \* number of the current invocation of main
    invocations,      \* history: every transcribe/OCR call of every run
    exitcode,         \* history: the exit status of every finished run
    stop_evt,         \* threading.Event flag shared by main and the monitor
    monpc,            \* position of system.monitor_resources
    now,              \* time.time() - start_time as the monitor sees it
    timestamps,       \* monitor_resources: timestamps
    cpu_usage_data,   \* monitor_resources: cpu_usage_data
    gpu_usage_data,   \* monitor_resources: gpu_usage_data
    gpu_power_data,   \* monitor_resources: gpu_power_data
    mon,              \* history of the monitor: counters and observations
    obs,              \* the watchdog observer thread and the notification it handles
    gate_util,        \* core.main / _process: util, the reading of the GPU check
    logged,           \* the lines get_eligible_files and the pipelines' entry hand to logging
    retval            \* <<v>> once a function called on its own has returned v

fsVars   == <<fs, listing>>
mainVars == <<host, args, logged, retval, flags, obs, gate_util, mainpc, eligible, av_files, doc_files, cur, model,
              run, invocations, exitcode>>
monVars  == <<stop_evt, monpc, now, timestamps, cpu_usage_data,
              gpu_usage_data, gpu_power_data, mon>>
vars     == <<fsVars, mainVars, monVars>>

-----------------------------------------------------------------------------
(* Bounds of the model.                                                    *)

\* largest number of input files present when main starts
MaxFiles == 2
\* largest size, in chunks, a file grows to while a notification is handled
MaxSize == 2
\* largest number of pages of a PDF
MaxPages == 3
\* largest number of directory entries when get_eligible_files is called alone
MaxEntries == 3
\* largest length of a command-line file list
MaxList == 2
\* largest number of samples one monitor session takes
MaxSamples == 2
\* number of invocations of main over the same directory
MaxRuns == 2
\* largest number of notifications the observer delivers
MaxEvents == 2
\* largest number of input files present when main --watch starts
MaxWatchFiles == 1

-----------------------------------------------------------------------------
(* Python string helpers.                                                  *)

LowerMap ==
    ("A" :> "a") @@ ("B" :> "b") @@ ("C" :> "c") @@ ("D" :> "d") @@
    ("E" :> "e") @@ ("F" :> "f") @@ ("G" :> "g") @@ ("H" :> "h") @@
    ("I" :> "i") @@ ("J" :> "j") @@ ("K" :> "k") @@ ("L" :> "l") @@
    ("M" :> "m") @@ ("N" :> "n") @@ ("O" :> "o") @@ ("P" :> "p") @@
    ("Q" :> "q") @@ ("R" :> "r") @@ ("S" :> "s") @@ ("T" :> "t") @@
    ("U" :> "u") @@ ("V" :> "v") @@ ("W" :> "w") @@ ("X" :> "x") @@
    ("Y" :> "y") @@ ("Z" :> "z")

\* str.lower()
lower(s) == [i \in DOMAIN s |-> IF s[i] \in DOMAIN LowerMap THEN LowerMap[s[i]] ELSE s[i]]

\* str.rfind(c), 1-based; 0 when c does not occur
rfind(s, c) ==
    IF \E i \in DOMAIN s : s[i] = c
    THEN CHOOSE i \in DOMAIN s : s[i] = c /\ \A j \in DOMAIN s : s[j] = c => j <= i
    ELSE 0

\* s[1:]
DropFirst(s) == SubSeq(s, 2, Len(s))

\* str.lstrip(".")
RECURSIVE lstrip_dot(_)
lstrip_dot(s) == IF s # <<>> /\ s[1] = "." THEN lstrip_dot(Tail(s)) ELSE s

\* str.rstrip("/")
RECURSIVE rstrip_sep(_)
rstrip_sep(s) ==
    IF s # <<>> /\ s[Len(s)] = "/" THEN rstrip_sep(SubSeq(s, 1, Len(s) - 1)) ELSE s

\* x in list
InList(x, l) == \E i \in DOMAIN l : l[i] = x

-----------------------------------------------------------------------------
(* os.path (posixpath) as the sources call it.                             *)

\* os.path.splitext(p) -> <<root, ext>>: the extension starts at the last dot
\* of the last component, unless that component has only leading dots before it
splitext(p) ==
    LET sepIndex == rfind(p, "/")
        dotIndex == rfind(p, ".")
    IN  IF dotIndex > sepIndex
           /\ \E k \in (sepIndex + 1)..(dotIndex - 1) : p[k] # "."
        THEN <<SubSeq(p, 1, dotIndex - 1), SubSeq(p, dotIndex, Len(p))>>
        ELSE <<p, <<>> >>

\* os.path.basename(p)
basename(p) == SubSeq(p, rfind(p, "/") + 1, Len(p))

\* os.path.dirname(p)
dirname(p) ==
    LET head == SubSeq(p, 1, rfind(p, "/"))
    IN  IF head # <<>> /\ \E k \in DOMAIN head : head[k] # "/"
        THEN rstrip_sep(head)
        ELSE head

\* os.path.join(a, b)
join(a, b) ==
    IF b # <<>> /\ b[1] = "/" THEN b
    ELSE IF a = <<>> \/ a[Len(a)] = "/" THEN a \o b
    ELSE a \o <<"/">> \o b

-----------------------------------------------------------------------------
(* The filesystem.  A file is keyed by the components of its path relative *)
(* to the working directory, so that "d/a.ts" and "d//a.ts" name one file. *)

RECURSIVE Components(_)
Components(p) ==
    IF p = <<>> THEN <<>>
    ELSE LET cut  == IF InList("/", p)
                     THEN CHOOSE i \in DOMAIN p : p[i] = "/" /\ \A j \in 1..(i - 1) : p[j] # "/"
                     ELSE Len(p) + 1
             head == SubSeq(p, 1, cut - 1)
             rest == Components(SubSeq(p, cut + 1, Len(p)))
         IN  IF head = <<>> \/ head = <<".">> THEN rest ELSE <<head>> \o rest

\* the directories that exist: the working directory and its subdirectory d
Dirs == { <<>>, << <<"d">> >> }

\* os.path.exists(p)
exists(p) == Components(p) \in DOMAIN fs \/ (p # <<>> /\ Components(p) \in Dirs)

\* open(p, "w").write(chunk)
WriteFile(f, p, chunk) == (Components(p) :> <<chunk>>) @@ f

\* open(p, "a").write(chunk)
AppendFile(f, p, chunk) ==
    LET k == Components(p)
    IN  (k :> (IF k \in DOMAIN f THEN Append(f[k], chunk) ELSE <<chunk>>)) @@ f

RECURSIVE SetToSeq(_)
SetToSeq(S) ==
    IF S = {} THEN <<>>
    ELSE LET x == CHOOSE y \in S : TRUE IN <<x>> \o SetToSeq(S \ {x})

Reverse(s) == [i \in DOMAIN s |-> s[Len(s) + 1 - i]]

\* the names of the entries of directory D
DirEntries(D) ==
    { k[Len(k)] : k \in { x \in DOMAIN fs : Len(x) = Len(Components(D)) + 1
                                            /\ SubSeq(x, 1, Len(x) - 1) = Components(D) } }

\* os.listdir(D) can return the entries in any order; two orders are modelled
ListdirResults(D) == { SetToSeq(DirEntries(D)), Reverse(SetToSeq(DirEntries(D))) }

\* os.listdir(D) raises when D is no directory
ListdirRaises(D) == Components(D) \notin Dirs

-----------------------------------------------------------------------------
(* utils.get_eligible_files and the naming of the artifacts.               *)

audio_video_extensions ==
    << <<".","m","p","3">>, <<".","w","a","v">>, <<".","a","a","c">>,
       <<".","f","l","a","c">>, <<".","o","g","g">>, <<".","m","4","a">>,
       <<".","w","m","a">>, <<".","m","p","4">>, <<".","m","o","v">>,
       <<".","a","v","i">>, <<".","w","m","v">>, <<".","f","l","v">>,
       <<".","m","k","v">>, <<".","w","e","b","m">>, <<".","m","4","v">>,
       <<".","m","p","g">>, <<".","m","p","e","g">>, <<".","3","g","p">>,
       <<".","3","g","2">>, <<".","r","m">>, <<".","r","m","v","b">>,
       <<".","v","o","b">>, <<".","t","s">>, <<".","o","g","v">>,
       <<".","f","4","v">>, <<".","d","i","v","x">> >>

document_image_extensions ==
    << <<".","p","d","f">>, <<".","j","p","g">>, <<".","j","p","e","g">>,
       <<".","p","n","g">>, <<".","b","m","p">>, <<".","t","i","f","f">>,
       <<".","t","i","f">>, <<".","w","e","b","p">>, <<".","g","i","f">>,
       <<".","h","e","i","c">>, <<".","h","e","i","f">> >>

supported_extensions == audio_video_extensions \o document_image_extensions

TXT == <<".","t","x","t">>
DUMP_TXT == <<"_","d","u","m","p",".","t","x","t">>

\* a faulty variant: the marker name built from the extension as spelled
txt_file_dir_case(input_dir, file_name) ==
    LET base_name == splitext(file_name)[1]
        ext       == DropFirst(splitext(file_name)[2])
    IN  join(input_dir, base_name \o <<"_">> \o ext \o TXT)

\* directory mode: txt_file for a listed name
txt_file_dir(input_dir, file_name) ==
    LET base_name == splitext(file_name)[1]
        ext       == DropFirst(lower(splitext(file_name)[2]))
    IN  join(input_dir, base_name \o <<"_">> \o ext \o TXT)

\* file-list mode: txt_file for a given path
txt_file_list(file_path) ==
    LET dir_name  == dirname(file_path)
        base_name == splitext(basename(file_path))[1]
        ext       == DropFirst(lower(splitext(file_path)[2]))
    IN  join(dir_name, base_name \o <<"_">> \o ext \o TXT)

\* directory mode of get_eligible_files over the listing lst
eligible_dir(input_dir, lst) ==
    LET files    == SelectSeq(lst, LAMBDA f : InList(lower(splitext(f)[2]), supported_extensions))
        unmarked == SelectSeq(files, LAMBDA f : ~exists(txt_file_dir(input_dir, f)))
    IN  [i \in DOMAIN unmarked |-> join(input_dir, unmarked[i])]

\* a faulty variant: file-list mode without the os.path.exists(file_path) test
eligible_list_unchecked(file_list) ==
    SelectSeq(file_list,
              LAMBDA p : /\ InList(lower(splitext(p)[2]), supported_extensions)
                         /\ ~exists(txt_file_list(p)))

\* a faulty variant: file-list mode without the test for the marker
eligible_list_unmarked(file_list) ==
    SelectSeq(file_list,
              LAMBDA p : /\ exists(p)
                         /\ InList(lower(splitext(p)[2]), supported_extensions))

\* a faulty variant: file-list mode without the test of the extension
eligible_list_any_type(file_list) ==
    SelectSeq(file_list, LAMBDA p : exists(p) /\ ~exists(txt_file_list(p)))

\* file-list mode of get_eligible_files
eligible_list(file_list) ==
    SelectSeq(file_list,
              LAMBDA p : /\ exists(p)
                         /\ InList(lower(splitext(p)[2]), supported_extensions)
                         /\ ~exists(txt_file_list(p)))

\* a logging call: level, message and the path the message names
Line(level, msg, path) == [level |-> level, msg |-> msg, path |-> path]

\* a faulty variant: a .txt path is reported like any other unsupported path
list_lines_txt_reported(p, verbose) ==
    IF ~exists(p) THEN <<Line("warning", "File not found", p)>>
    ELSE IF ~InList(lower(splitext(p)[2]), supported_extensions)
    THEN IF verbose THEN <<Line("warning", "Unsupported file type", p)>> ELSE <<>>
    ELSE IF exists(txt_file_list(p))
    THEN <<Line("info", "already processed", p)>>
    ELSE <<>>

\* a faulty variant: the unsupported-type warning does not look at verbose
list_lines_always(p, verbose) ==
    IF ~exists(p) THEN <<Line("warning", "File not found", p)>>
    ELSE IF ~InList(lower(splitext(p)[2]), supported_extensions)
    THEN IF lower(splitext(p)[2]) = TXT THEN <<>>
         ELSE <<Line("warning", "Unsupported file type", p)>>
    ELSE IF exists(txt_file_list(p))
    THEN <<Line("info", "already processed", p)>>
    ELSE <<>>

\* file-list mode: what one pass of the loop over file_list logs for file_path
list_lines(p, verbose) ==
    IF ~exists(p) THEN <<Line("warning", "File not found", p)>>
    ELSE IF ~InList(lower(splitext(p)[2]), supported_extensions)
    THEN IF lower(splitext(p)[2]) = TXT THEN <<>>
         ELSE IF verbose THEN <<Line("warning", "Unsupported file type", p)>>
         ELSE <<>>
    ELSE IF exists(txt_file_list(p))
    THEN <<Line("info", "already processed", p)>>
    ELSE <<>>

\* file-list mode: the lines of the whole loop, in order
RECURSIVE list_log(_, _)
list_log(file_list, verbose) ==
    IF file_list = <<>> THEN <<>>
    ELSE list_lines(Head(file_list), verbose) \o list_log(Tail(file_list), verbose)

\* what get_eligible_files logs; directory mode logs nothing
eligible_log(input_dir, file_list, verbose) ==
    IF input_dir # <<>> THEN <<>> ELSE list_log(file_list, verbose)

\* get_eligible_files(input_dir, file_list); None is the empty string / list
get_eligible_files(input_dir, file_list, lst) ==
    IF input_dir # <<>> THEN eligible_dir(input_dir, lst)
    ELSE IF file_list # <<>> THEN eligible_list(file_list)
    ELSE <<>>

-----------------------------------------------------------------------------
(* system.monitor_resources.                                               *)
(*                                                                         *)
(* The monitor runs on the thread core.main starts (core.py 136-142; the   *)
(* test starts it on a thread too).  CPython raises KeyboardInterrupt only *)
(* in the main thread, so the handler at system.py 253-255 is never        *)
(* entered on that thread and is not an action of this model.              *)

\* --monitoring-interval default, in seconds
DefaultInterval == 10

\* psutil.cpu_percent() results the model draws from
CpuReadings == {50}
\* nvmlDeviceGetUtilizationRates(h).gpu results the model draws from
GpuUtilReadings == {30}
\* nvmlDeviceGetPowerUsage(h) results (milliwatts) the model draws from
GpuPowerReadings == {10000, 20000}

\* the backfill of a failed read: the last known value, or 0 with no data
backfill(series) == IF Len(series) > 0 THEN series[Len(series)] ELSE 0

\* the outcome of one read: a value, or an exception
ReadOk(v) == [ok |-> TRUE, v |-> v]
ReadFails == [ok |-> FALSE, v |-> 0]

\* cpu_usage_data after one sample
sample_cpu(series, cpu) ==
    IF ~flags.psutil_available THEN series
    ELSE IF cpu.ok THEN Append(series, cpu.v)
    ELSE Append(series, backfill(series))

\* gpu_usage_data after one sample.  The utilisation is appended inside the
\* try block before the power is read, and the except block appends to both
\* lists.
sample_gpu_usage(series, util, power) ==
    IF ~flags.gpu_available THEN series
    ELSE IF ~util.ok THEN Append(series, backfill(series))
    ELSE IF ~power.ok THEN Append(Append(series, util.v), util.v)
    ELSE Append(series, util.v)

\* gpu_power_data after one sample
sample_gpu_power(series, util, power) ==
    IF ~flags.gpu_available THEN series
    ELSE IF ~util.ok \/ ~power.ok THEN Append(series, backfill(series))
    ELSE Append(series, power.v \div 1000)

\* the outcomes of the reads of one call of sample_resources
\* (a read that is not made counts as failed and is ignored)
CpuOutcomes ==
    IF flags.psutil_available THEN {ReadOk(v) : v \in CpuReadings} \cup {ReadFails}
    ELSE {ReadFails}
GpuOutcomes ==
    IF flags.gpu_available
    THEN ({ReadOk(v) : v \in GpuUtilReadings}
            \X ({ReadOk(v) : v \in GpuPowerReadings} \cup {ReadFails}))
         \cup {<<ReadFails, ReadFails>>}
    ELSE {<<ReadFails, ReadFails>>}

\* sample_resources(): one timestamp and one entry per enabled series
sample_resources ==
    \E cpu \in CpuOutcomes, gpu \in GpuOutcomes :
        /\ timestamps' = Append(timestamps, now)
        /\ cpu_usage_data' = sample_cpu(cpu_usage_data, cpu)
        /\ gpu_usage_data' = sample_gpu_usage(gpu_usage_data, gpu[1], gpu[2])
        /\ gpu_power_data' = sample_gpu_power(gpu_power_data, gpu[1], gpu[2])
        /\ mon' = [mon EXCEPT !.samples = @ + 1,
                              !.late = @ \/ mon.observed,
                              !.samples_after_set = IF stop_evt THEN @ + 1 ELSE @,
                              !.failed = Append(@, [cpu |-> ~cpu.ok,
                                                    gpu |-> ~gpu[1].ok \/ ~gpu[2].ok])]

\* a faulty variant: the result of wait is ignored: no break
after_wait_nobreak(ret) == "sample"

\* a faulty variant: the break taken when the wait timed out
after_wait_inverted(ret) == IF ret THEN "sample" ELSE "stats"

\* where the loop goes when stop_event.wait(interval) returns ret
after_wait(ret) == IF ret THEN "stats" ELSE "sample"

\* a faulty variant: the loop test inverted: while stop_event.is_set()
after_is_set_inverted(ret) == IF ret THEN "wait" ELSE "stats"

\* where the loop goes when stop_event.is_set() returns ret
after_is_set(ret) == IF ret THEN "stats" ELSE "wait"

\* "Take initial sample immediately"
MonInitialSample ==
    /\ monpc = "entry"
    /\ sample_resources
    /\ monpc' = "check"
    /\ UNCHANGED <<fsVars, mainVars, stop_evt, now>>

\* while not stop_event.is_set():
MonCheck ==
    /\ monpc = "check"
    /\ monpc' = after_is_set(stop_evt)
    /\ mon' = [mon EXCEPT !.observed = @ \/ stop_evt]
    /\ UNCHANGED <<fsVars, mainVars, stop_evt, now, timestamps, cpu_usage_data,
                   gpu_usage_data, gpu_power_data>>

\* stop_event.wait(interval) is called; the event may have been set since
\* the loop test
MonWaitCall ==
    /\ monpc = "wait"
    /\ monpc' = "waiting"
    /\ mon' = [mon EXCEPT !.waits_after_set = IF stop_evt THEN @ + 1 ELSE @]
    /\ UNCHANGED <<fsVars, mainVars, stop_evt, now, timestamps, cpu_usage_data,
                   gpu_usage_data, gpu_power_data>>

\* stop_event.wait(interval) returns True: the event is set, before the call
\* or during the wait
MonWaitSignalled ==
    /\ monpc = "waiting"
    /\ stop_evt
    /\ monpc' = after_wait(TRUE)
    /\ mon' = [mon EXCEPT !.observed = TRUE, !.waits = @ + 1]
    /\ UNCHANGED <<fsVars, mainVars, stop_evt, now, timestamps, cpu_usage_data,
                   gpu_usage_data, gpu_power_data>>

\* stop_event.wait(interval) returns False: the interval elapsed first
MonWaitTimeout ==
    /\ monpc = "waiting"
    /\ ~stop_evt
    /\ Len(timestamps) < MaxSamples
    /\ \E j \in mon.jitter : now' = now + args.monitoring_interval + j
    /\ monpc' = after_wait(FALSE)
    /\ mon' = [mon EXCEPT !.timeouts = @ + 1, !.waits = @ + 1]
    /\ UNCHANGED <<fsVars, mainVars, stop_evt, timestamps, cpu_usage_data,
                   gpu_usage_data, gpu_power_data>>

\* "Take another sample"
MonSample ==
    /\ monpc = "sample"
    /\ sample_resources
    /\ monpc' = "check"
    /\ UNCHANGED <<fsVars, mainVars, stop_evt, now>>

\* a faulty variant: the power at the start of each interval, not the mean
RECURSIVE energy_joules2_left(_, _, _)
energy_joules2_left(p, t, i) ==
    IF i < 2 THEN 0
    ELSE energy_joules2_left(p, t, i - 1) + (p[i-1] + p[i-1]) * (t[i] - t[i-1])

\* twice energy_joules after the passes of the loop up to index i (the list
\* index i - 1 of the code): each pass adds avg_power * dt, where avg_power
\* is half of gpu_power_data[i] + gpu_power_data[i-1]
RECURSIVE energy_joules2(_, _, _)
energy_joules2(p, t, i) ==
    IF i < 2 THEN 0
    ELSE energy_joules2(p, t, i - 1) + (p[i] + p[i-1]) * (t[i] - t[i-1])

\* whether the statistics block logs the total energy
energy_logged ==
    /\ gpu_usage_data # <<>>
    /\ gpu_power_data # <<>>
    /\ Len(gpu_power_data) > 1
    /\ Len(timestamps) = Len(gpu_power_data)

\* energy_wh = energy_joules / 3600, as the fraction <<numerator, denominator>>
energy_wh == <<energy_joules2(gpu_power_data, timestamps, Len(timestamps)), 2 * 3600>>

\* a faulty variant: the statistics inside the loop
after_statistics_loops == "check"

\* after the statistics block the function ends
after_statistics == "done"

\* the statistics block after the loop, then the function returns
MonStatistics ==
    /\ monpc = "stats"
    /\ monpc' = after_statistics
    /\ mon' = [mon EXCEPT !.stats = @ + 1, !.statsObserved = mon.observed,
                          !.energy_logged = energy_logged,
                          !.energy_wh = IF energy_logged THEN energy_wh ELSE <<0, 1>>]
    /\ UNCHANGED <<fsVars, mainVars, stop_evt, now, timestamps, cpu_usage_data,
                   gpu_usage_data, gpu_power_data>>

Monitor ==
    \/ MonInitialSample
    \/ MonCheck
    \/ MonWaitCall
    \/ MonWaitSignalled
    \/ MonWaitTimeout
    \/ MonSample
    \/ MonStatistics

\* the monitor's history at thread start
MonFresh(jitter) ==
    [samples |-> 0, timeouts |-> 0, waits |-> 0, observed |-> FALSE,
     late |-> FALSE, samples_after_set |-> 0, waits_after_set |-> 0, stats |-> 0, statsObserved |-> FALSE, failed |-> <<>>,
     jitter |-> jitter, energy_logged |-> FALSE, energy_wh |-> <<0, 1>>]

-----------------------------------------------------------------------------
(* utils.categorize_files.                                                 *)

\* a faulty variant: the extension compared as spelled
is_audio_video_case(p) == InList(splitext(p)[2], audio_video_extensions)

is_audio_video(p) == InList(lower(splitext(p)[2]), audio_video_extensions)
is_document_image(p) ==
    ~is_audio_video(p) /\ InList(lower(splitext(p)[2]), document_image_extensions)

\* a faulty variant: each list comes out in the opposite order
categorize_files_reversed(files) ==
    <<Reverse(SelectSeq(files, is_audio_video)), Reverse(SelectSeq(files, is_document_image))>>

\* categorize_files(files) -> <<audio_video_files, document_image_files>>
categorize_files(files) ==
    <<SelectSeq(files, is_audio_video), SelectSeq(files, is_document_image)>>

-----------------------------------------------------------------------------
(* The artifacts of one input file, as each pipeline names them.           *)

\* a faulty variant: the marker named after the extension as spelled
av_txt_case(fp) ==
    LET base == splitext(basename(fp))[1]
        ext  == lstrip_dot(splitext(fp)[2])
    IN  join(dirname(fp), base \o <<"_">> \o ext \o TXT)

\* media.process_audio_video_files: txt
av_txt(fp) ==
    LET base == splitext(basename(fp))[1]
        ext  == lstrip_dot(lower(splitext(fp)[2]))
    IN  join(dirname(fp), base \o <<"_">> \o ext \o TXT)

\* media.process_audio_video_files: dump
av_dump(fp) ==
    LET base == splitext(basename(fp))[1]
        ext  == lstrip_dot(lower(splitext(fp)[2]))
    IN  join(dirname(fp), base \o <<"_">> \o ext \o DUMP_TXT)

\* a faulty variant: the marker named {base}.txt, without the extension
doc_txt_file_plain(file_path) ==
    join(dirname(file_path), splitext(basename(file_path))[1] \o TXT)

\* documents.process_document_files: txt_file
doc_txt_file(file_path) ==
    LET base_name       == splitext(basename(file_path))[1]
        ext_without_dot == DropFirst(lower(splitext(file_path)[2]))
    IN  join(dirname(file_path), base_name \o <<"_">> \o ext_without_dot \o TXT)

\* documents.process_document_files: dump_file
doc_dump_file(file_path) ==
    LET base_name       == splitext(basename(file_path))[1]
        ext_without_dot == DropFirst(lower(splitext(file_path)[2]))
    IN  join(dirname(file_path), base_name \o <<"_">> \o ext_without_dot \o DUMP_TXT)

\* what the pipelines write, one chunk per write() call
HEADER  == "header"
SUMMARY == "summary"
ERROR_LINE == "ERROR: e"
OCR_ERROR_TEXT == "ERROR during OCR processing: e"
TRANSCRIPT == "transcript"
OCR_TEXT == "ocr text"

\* how a call into whisper or EasyOCR can end
CallOutcomes == {"ok", "Exception", "KeyboardInterrupt"}

\* a faulty variant: no handler around model.transcribe
av_caught_nothing == {}

\* the exceptions the per-file try block catches (except Exception)
av_caught == {"Exception"}

\* a faulty variant: no handler in process_document_with_ocr
ocr_caught_nothing == {}

\* the exceptions process_document_with_ocr catches (except Exception)
ocr_caught == {"Exception"}

\* a faulty variant: the marker is created together with the dump header
av_header_marks(f, fp) == WriteFile(WriteFile(f, av_dump(fp), HEADER), av_txt(fp), HEADER)

\* a faulty variant: the dump is opened for appending
av_header_appends(f, fp) == AppendFile(f, av_dump(fp), HEADER)

\* the dump header: open(dump, "w")
av_header(f, fp) == WriteFile(f, av_dump(fp), HEADER)

\* the summary footer: open(dump, "a")
av_footer(f, fp) == AppendFile(f, av_dump(fp), SUMMARY)

\* a faulty variant: the marker is written in the handler as well
av_try_marks(f, fp, o) ==
    IF o = "ok"
    THEN WriteFile(AppendFile(f, av_dump(fp), TRANSCRIPT), av_txt(fp), TRANSCRIPT)
    ELSE WriteFile(AppendFile(f, av_dump(fp), ERROR_LINE), av_txt(fp), ERROR_LINE)

\* the filesystem after the try block of process_audio_video_files for fp,
\* when model.transcribe ended with outcome o (o is "ok" or caught)
av_try(f, fp, o) ==
    IF o = "ok"
    THEN WriteFile(AppendFile(f, av_dump(fp), TRANSCRIPT), av_txt(fp), TRANSCRIPT)
    ELSE AppendFile(f, av_dump(fp), ERROR_LINE)

\* process_document_with_ocr(file_path) when the engine call ends with o:
\* the returned text
process_document_with_ocr(o) ==
    IF ~flags.easyocr_available THEN ""
    ELSE IF o = "ok" THEN OCR_TEXT
    ELSE OCR_ERROR_TEXT

\* the dump header: open(dump_file, 'w')
doc_header(f, file_path) == WriteFile(f, doc_dump_file(file_path), HEADER)

\* the summary footer: open(dump_file, 'a')
doc_footer(f, file_path) == AppendFile(f, doc_dump_file(file_path), SUMMARY)

\* a try block that writes no marker for an empty text
doc_try_skips_empty(f, file_path, text) ==
    IF text = "" THEN AppendFile(f, doc_dump_file(file_path), text)
    ELSE WriteFile(AppendFile(f, doc_dump_file(file_path), text), doc_txt_file(file_path), text)

\* the filesystem after the try block of process_document_files
doc_try(f, file_path, text) ==
    WriteFile(AppendFile(f, doc_dump_file(file_path), text), doc_txt_file(file_path), text)

-----------------------------------------------------------------------------
(* core.main.                                                              *)

\* the process ends: a daemon thread still running dies with it
ProcessExit(code) ==
    /\ mainpc' = "exited"
    /\ exitcode' = Append(exitcode, code)
    /\ monpc' = IF monpc \in {"none", "done"} THEN monpc ELSE "killed"

\* a faulty variant: the failed scan is logged and main goes on with nothing
\* eligible
DiscoverFails_goes_on ==
    /\ mainpc = "start"
    /\ args.input_dir # <<>>
    /\ ListdirRaises(args.input_dir)
    /\ mainpc' = "monitor"
    /\ UNCHANGED <<fsVars, host, args, retval, logged, flags, obs, gate_util, eligible, av_files,
                   doc_files, cur, model, run, invocations, exitcode, monVars>>

\* file discovery fails: os.listdir raises, sys.exit(1)
DiscoverFails ==
    /\ mainpc = "start"
    /\ args.input_dir # <<>>
    /\ ListdirRaises(args.input_dir)
    /\ ProcessExit("1")
    /\ UNCHANGED <<fsVars, host, args, retval, logged, flags, obs, gate_util, eligible, av_files, doc_files, cur, model,
                   run, invocations, stop_evt, now, timestamps, cpu_usage_data,
                   gpu_usage_data, gpu_power_data, mon>>

\* file discovery and categorisation, up to the start of the monitor
Discover ==
    /\ mainpc = "start"
    /\ ~(args.input_dir # <<>> /\ ListdirRaises(args.input_dir))
    /\ \E lst \in (IF args.input_dir # <<>> THEN ListdirResults(args.input_dir) ELSE {<<>>}) :
        LET el == get_eligible_files(args.input_dir, args.files, lst)
        IN  /\ listing' = lst
            /\ eligible' = el
            /\ logged' = logged \o eligible_log(args.input_dir, args.files, args.verbose)
            /\ av_files' = categorize_files(el)[1]
            /\ doc_files' = categorize_files(el)[2]
            /\ IF el = <<>> /\ ~args.watch
               THEN ProcessExit("0")
               ELSE mainpc' = "monitor" /\ UNCHANGED <<exitcode, monpc>>
    /\ UNCHANGED <<fs, host, args, retval, flags, obs, gate_util, cur, model, run, invocations,
                   stop_evt, now, timestamps, cpu_usage_data, gpu_usage_data, gpu_power_data, mon>>

\* where main goes after the document pipeline: if args.watch
AfterDocs == IF args.watch THEN "watch" ELSE "wrapup"

\* where main goes after the audio/video pipeline: if doc_files
AfterAv == IF doc_files # <<>> THEN "doc_loop" ELSE AfterDocs

\* where main goes after the start of the monitor: if av_files
AfterMonitorStart == IF av_files # <<>> THEN "load" ELSE AfterAv

\* the index of the file a pipeline's loop starts with
FirstIndex(pc) == IF pc \in {"av_loop", "doc_loop"} THEN 1 ELSE 0

\* stop_evt = threading.Event(); mon_thr.start()
StartMonitor ==
    /\ mainpc = "monitor"
    /\ stop_evt' = FALSE
    /\ monpc' = "entry"
    /\ mainpc' = AfterMonitorStart
    /\ cur' = FirstIndex(AfterMonitorStart)
    /\ UNCHANGED <<fsVars, host, args, retval, logged, flags, obs, gate_util, eligible, av_files, doc_files, model,
                   run, invocations, exitcode, now, timestamps, cpu_usage_data,
                   gpu_usage_data, gpu_power_data, mon>>

\* an exception reaches the handlers at the end of main: sys.exit(130) for
\* KeyboardInterrupt, sys.exit(1) otherwise; neither sets stop_evt nor joins
Unhandled(o) == ProcessExit(IF o = "KeyboardInterrupt" THEN "130" ELSE "1")

\* --gpu-threshold default, in percent
DefaultThreshold == 20

\* args.device after main's fallback: a cuda request without CUDA becomes cpu
device == IF args.device = "cuda" /\ ~flags.cuda_available THEN "cpu" ELSE args.device

\* nvmlDeviceGetUtilizationRates(h).gpu results the GPU check draws from:
\* below, at and above the threshold
CheckReadings == {args.gpu_threshold - 10, args.gpu_threshold, args.gpu_threshold + 10}

\* the GPU check before the model is loaded: the reading util, or -1 when the
\* check is skipped or the query raises
gpu_check ==
    IF device = "cuda" /\ flags.gpu_available /\ ~args.ignore_gpu_threshold
    THEN CheckReadings \cup {-1}
    ELSE {-1}

\* a faulty variant: the model is moved to the device asked for
load_whisper_model_unchecked(dev) == dev

\* load_whisper_model_with_warning_suppression: the device the model is
\* moved to
load_whisper_model_with_warning_suppression(dev) ==
    IF dev = "cuda" /\ flags.cuda_available THEN "cuda" ELSE "cpu"

\* process_audio_video_files: fp16 as passed to model.transcribe
fp16(dev) == dev = "cuda" /\ flags.cuda_available

\* if av_files: the GPU check (util >= args.gpu_threshold only logs a
\* warning, "continuing anyway"), then the model is loaded
LoadModel ==
    /\ mainpc = "load"
    /\ gate_util' \in gpu_check
    /\ \E o \in CallOutcomes :
        IF o = "ok"
        THEN /\ model' = load_whisper_model_with_warning_suppression(device)
             /\ mainpc' = "av_loop"
             /\ cur' = 1
             /\ UNCHANGED <<exitcode, monpc>>
        ELSE /\ Unhandled(o)
             /\ UNCHANGED <<model, cur>>
    /\ UNCHANGED <<fsVars, host, args, retval, logged, flags, obs, eligible, av_files, doc_files, run,
                   invocations, stop_evt, now, timestamps, cpu_usage_data,
                   gpu_usage_data, gpu_power_data, mon>>

\* process_audio_video_files, one pass of the loop over files: the dump
\* header, then the try block around model.transcribe, then the summary
\* footer.  An exception the try block does not catch leaves main after the
\* header was written.
ProcessAvFile ==
    /\ mainpc = "av_loop"
    /\ \E o \in CallOutcomes :
        /\ invocations' = Append(invocations,
               [run |-> run, path |-> av_files[cur], call |-> "transcribe", result |-> o,
                fp16 |-> fp16(device), on |-> model])
        /\ IF o = "ok" \/ o \in av_caught
           THEN /\ fs' = av_footer(av_try(av_header(fs, av_files[cur]), av_files[cur], o),
                                   av_files[cur])
                /\ IF cur < Len(av_files)
                   THEN cur' = cur + 1 /\ mainpc' = "av_loop"
                   ELSE cur' = FirstIndex(AfterAv) /\ mainpc' = AfterAv
                /\ UNCHANGED <<exitcode, monpc>>
           ELSE /\ fs' = av_header(fs, av_files[cur])
                /\ Unhandled(o)
                /\ UNCHANGED cur
    /\ UNCHANGED <<listing, host, args, retval, logged, flags, obs, gate_util, eligible, av_files, doc_files, model,
                   run, stop_evt, now, timestamps, cpu_usage_data, gpu_usage_data,
                   gpu_power_data, mon>>

\* process_document_files, one pass of the loop over files: the dump header,
\* then the try block around process_document_with_ocr, then the summary
\* footer.  With EasyOCR unavailable the engine is not called.
ProcessDocFile ==
    /\ mainpc = "doc_loop"
    /\ \E o \in (IF flags.easyocr_available THEN CallOutcomes ELSE {"unavailable"}) :
        /\ invocations' = Append(invocations,
               [run |-> run, path |-> doc_files[cur], call |-> "ocr", result |-> o,
                fp16 |-> FALSE, on |-> "None"])
        /\ IF o \in {"ok", "unavailable"} \/ o \in ocr_caught
           THEN /\ fs' = doc_footer(doc_try(doc_header(fs, doc_files[cur]), doc_files[cur],
                                            process_document_with_ocr(o)),
                                    doc_files[cur])
                /\ IF cur < Len(doc_files)
                   THEN cur' = cur + 1 /\ mainpc' = "doc_loop"
                   ELSE cur' = 0 /\ mainpc' = AfterDocs
                /\ UNCHANGED <<exitcode, monpc>>
           ELSE /\ fs' = doc_header(fs, doc_files[cur])
                /\ Unhandled(o)
                /\ UNCHANGED cur
    /\ UNCHANGED <<listing, host, args, retval, logged, flags, obs, gate_util, eligible, av_files, doc_files, model,
                   run, stop_evt, now, timestamps, cpu_usage_data, gpu_usage_data,
                   gpu_power_data, mon>>

\* a host whose subsystems the specification does not load: it starts from
\* the flags initialize_system_checks has set
Unprobed ==
    [torch |-> "", ffprobe |-> "", psutil |-> "", pynvml |-> "", easyocr |-> "",
     fitz |-> ""]

\* the kinds of notification NewFileHandler has a method for
EventKinds == {"created", "modified", "moved", "closed"}

\* how a call can end on the observer's thread, where CPython never raises
\* KeyboardInterrupt
ThreadOutcomes == CallOutcomes \ {"KeyboardInterrupt"}

\* _wait_until_complete's locals before the call: deadline, last, size (the
\* latest reading) and, as history, prev (the reading before the latest) and
\* read (the number of readings)
NoWait == [deadline |-> 0, last |-> -1, size |-> -1, prev |-> -1, read |-> 0]

\* the observer's thread before observer.start(): no notification handled,
\* none waiting in the observer's event queue
ObsNone ==
    [pc |-> "none", kind |-> "", path |-> <<>>, is_directory |-> FALSE,
     steps |-> <<>>, marked |-> FALSE, delivered |-> 0, queue |-> {},
     w |-> NoWait]

\* the path a handler method works on: event.dest_path in on_moved,
\* event.src_path in the others
handler_path(e) == IF e.kind = "moved" THEN e.dest_path ELSE e.src_path

\* a faulty variant: no method waits for the file to be complete
first_step_nowait(kind) == "process"

\* the first call of a handler method for a file: on_created, on_modified
\* and on_moved call _wait_until_complete, on_closed calls _process
first_step(kind) == IF kind = "closed" THEN "process" ELSE "wait"

\* whether the marker of path p is on disk
marker_exists(p) ==
    InList(lower(splitext(p)[2]), supported_extensions) /\ exists(txt_file_list(p))

\* the observer's thread between notifications
ObsIdle(n) == [ObsNone EXCEPT !.pc = "idle", !.delivered = n, !.queue = obs.queue]

\* the observer's thread takes the next notification and calls the method
\* of its kind
Dispatch(e) ==
    /\ mainpc # "obs_join"
    /\ obs.pc = "idle"
    /\ obs.delivered < MaxEvents
    /\ obs' = [pc |-> "called", kind |-> e.kind, path |-> handler_path(e),
               is_directory |-> e.is_directory, steps |-> <<>>,
               marked |-> marker_exists(handler_path(e)),
               delivered |-> obs.delivered + 1, queue |-> obs.queue, w |-> NoWait]
    /\ UNCHANGED <<fsVars, host, args, retval, logged, flags, gate_util, mainpc, eligible, av_files,
                   doc_files, cur, model, run, invocations, exitcode, monVars>>

\* on_created, on_modified, on_moved, on_closed: if not event.is_directory
Handle ==
    /\ obs.pc = "called"
    /\ obs' = IF obs.is_directory THEN ObsIdle(obs.delivered)
              ELSE [obs EXCEPT !.pc = first_step(obs.kind)]
    /\ UNCHANGED <<fsVars, host, args, retval, logged, flags, gate_util, mainpc, eligible, av_files,
                   doc_files, cur, model, run, invocations, exitcode, monVars>>

\* _wait_until_complete(path): returns once two size readings agree or the
\* timeout has passed
WaitUntilComplete ==
    /\ obs.pc = "wait"
    /\ obs' = [obs EXCEPT !.pc = "process", !.steps = Append(@, "wait")]
    /\ UNCHANGED <<fsVars, host, args, retval, logged, flags, gate_util, mainpc, eligible, av_files,
                   doc_files, cur, model, run, invocations, exitcode, monVars>>

\* a faulty variant: the model is loaded for every audio/video file
after_eligible_reloads(el) ==
    IF categorize_files(el)[1] # <<>> THEN "load"
    ELSE IF categorize_files(el)[2] # <<>> THEN "doc"
    ELSE "idle"

\* where _process goes after el = get_eligible_files(file_list=[path]) and
\* av, docs = categorize_files(el)
after_eligible(el) ==
    IF categorize_files(el)[1] # <<>> THEN (IF model = "None" THEN "load" ELSE "av")
    ELSE IF categorize_files(el)[2] # <<>> THEN "doc"
    ELSE "idle"

\* _process(path), up to the branch on av and docs
Process ==
    /\ obs.pc = "process"
    /\ obs' = IF after_eligible(get_eligible_files(<<>>, <<obs.path>>, <<>>)) = "idle"
              THEN ObsIdle(obs.delivered)
              ELSE [obs EXCEPT
                      !.pc = after_eligible(get_eligible_files(<<>>, <<obs.path>>, <<>>)),
                      !.steps = Append(@, "process")]
    /\ logged' = logged \o eligible_log(<<>>, <<obs.path>>, args.verbose)
    /\ UNCHANGED <<fsVars, host, args, retval, flags, gate_util, mainpc, eligible, av_files,
                   doc_files, cur, model, run, invocations, exitcode, monVars>>

\* _process: model is None, so the GPU check and the load; an exception
\* ends the observer's thread
ProcessLoad ==
    /\ obs.pc = "load"
    /\ gate_util' \in gpu_check
    /\ \E o \in ThreadOutcomes :
        IF o = "ok"
        THEN /\ model' = load_whisper_model_with_warning_suppression(device)
             /\ obs' = [obs EXCEPT !.pc = "av"]
        ELSE /\ obs' = [ObsIdle(obs.delivered) EXCEPT !.pc = "dead"]
             /\ UNCHANGED model
    /\ UNCHANGED <<fsVars, host, args, retval, logged, flags, mainpc, eligible, av_files, doc_files, cur,
                   run, invocations, exitcode, monVars>>

\* the paths of the watched directory a pipeline call has written to, f being
\* the filesystem before the call and g after it: the running observer gets
\* a notification for each
Written(f, g) ==
    {join(args.input_dir, k[2]) :
        k \in {x \in DOMAIN g : /\ Len(x) = 2
                                 /\ <<x[1]>> = Components(args.input_dir)
                                 /\ (x \notin DOMAIN f \/ f[x] # g[x])}}

\* _process: process_audio_video_files([path], model, ...)
ProcessAv ==
    /\ obs.pc = "av"
    /\ \E o \in ThreadOutcomes :
        /\ invocations' = Append(invocations,
               [run |-> run, path |-> obs.path, call |-> "transcribe", result |-> o,
                fp16 |-> fp16(device), on |-> model])
        /\ fs' = av_footer(av_try(av_header(fs, obs.path), obs.path, o), obs.path)
    /\ obs' = [ObsIdle(obs.delivered) EXCEPT !.queue = obs.queue \cup Written(fs, fs')]
    /\ UNCHANGED <<listing, host, args, retval, logged, flags, gate_util, mainpc, eligible, av_files,
                   doc_files, cur, model, run, exitcode, monVars>>

\* _process: process_document_files([path])
ProcessDocs ==
    /\ obs.pc = "doc"
    /\ \E o \in (IF flags.easyocr_available THEN ThreadOutcomes ELSE {"unavailable"}) :
        /\ invocations' = Append(invocations,
               [run |-> run, path |-> obs.path, call |-> "ocr", result |-> o,
                fp16 |-> FALSE, on |-> "None"])
        /\ fs' = doc_footer(doc_try(doc_header(fs, obs.path), obs.path,
                                    process_document_with_ocr(o)),
                            obs.path)
    /\ obs' = [ObsIdle(obs.delivered) EXCEPT !.queue = obs.queue \cup Written(fs, fs')]
    /\ UNCHANGED <<listing, host, args, retval, logged, flags, gate_util, mainpc, eligible, av_files,
                   doc_files, cur, model, run, exitcode, monVars>>

\* args.watch and watchdog cannot be imported: stop_evt.set(), then join
WatchdogMissing ==
    /\ mainpc = "watch"
    /\ stop_evt' = TRUE
    /\ mainpc' = "join_exit1"
    /\ UNCHANGED <<fsVars, host, args, retval, logged, flags, obs, gate_util, eligible, av_files, doc_files, cur, model,
                   run, invocations, exitcode, monpc, now, timestamps,
                   cpu_usage_data, gpu_usage_data, gpu_power_data, mon>>

\* mon_thr.join() returns once the monitor has returned; sys.exit(1)
JoinThenExit ==
    /\ mainpc = "join_exit1"
    /\ monpc = "done"
    /\ ProcessExit("1")
    /\ UNCHANGED <<fsVars, host, args, retval, logged, flags, obs, gate_util, eligible, av_files, doc_files, cur, model,
                   run, invocations, stop_evt, now, timestamps, cpu_usage_data,
                   gpu_usage_data, gpu_power_data, mon>>

\* a faulty variant: the observer is started before the document pipeline
AfterObserverStart_early == IF doc_files # <<>> THEN "doc_loop" ELSE "watching"

\* where main goes after observer.start(): into its sleep loop
AfterObserverStart == "watching"

\* args.watch: observer.start(), then main sleeps in its loop
StartWatch ==
    /\ mainpc = "watch"
    /\ mainpc' = AfterObserverStart
    /\ cur' = FirstIndex(AfterObserverStart)
    /\ obs' = ObsIdle(0)
    /\ UNCHANGED <<fsVars, host, args, retval, logged, flags, gate_util, eligible, av_files, doc_files,
                   model, run, invocations, exitcode, monVars>>

\* KeyboardInterrupt in the watch loop: caught; finally: observer.stop()
WatchInterrupted ==
    /\ mainpc = "watching"
    /\ mainpc' = "obs_join"
    /\ UNCHANGED <<fsVars, host, args, retval, logged, flags, obs, gate_util, eligible, av_files, doc_files,
                   cur, model, run, invocations, exitcode, monVars>>

\* observer.join() returns once the observer's thread has ended, which it
\* does after the callback it is in
ObserverJoin ==
    /\ mainpc = "obs_join"
    /\ obs.pc \in {"idle", "dead"}
    /\ obs' = [ObsIdle(obs.delivered) EXCEPT !.pc = "stopped"]
    /\ mainpc' = "wrapup"
    /\ UNCHANGED <<fsVars, host, args, retval, logged, flags, gate_util, eligible, av_files, doc_files, cur,
                   model, run, invocations, exitcode, monVars>>

\* wrap-up: final readings, then stop_evt.set()
WrapUp ==
    /\ mainpc = "wrapup"
    /\ stop_evt' = TRUE
    /\ mainpc' = "join"
    /\ UNCHANGED <<fsVars, host, args, retval, logged, flags, obs, gate_util, eligible, av_files, doc_files, cur, model,
                   run, invocations, exitcode, monpc, now, timestamps,
                   cpu_usage_data, gpu_usage_data, gpu_power_data, mon>>

\* mon_thr.join() returns once the monitor has returned; main returns
Join ==
    /\ mainpc = "join"
    /\ monpc = "done"
    /\ ProcessExit("0")
    /\ UNCHANGED <<fsVars, host, args, retval, logged, flags, obs, gate_util, eligible, av_files, doc_files, cur, model,
                   run, invocations, stop_evt, now, timestamps, cpu_usage_data,
                   gpu_usage_data, gpu_power_data, mon>>

\* the same command line is run again over the same filesystem; every start
\* of the program probes EasyOCR anew, and the engine may have been installed
\* or removed in between
NextRun ==
    /\ mainpc = "exited"
    /\ run < MaxRuns
    /\ run' = run + 1
    /\ mainpc' = "start"
    /\ listing' = <<>>
    /\ eligible' = <<>>
    /\ av_files' = <<>>
    /\ doc_files' = <<>>
    /\ cur' = 0
    /\ model' = "None"
    /\ stop_evt' = FALSE
    /\ monpc' = "none"
    /\ now' = 0
    /\ timestamps' = <<>>
    /\ cpu_usage_data' = <<>>
    /\ gpu_usage_data' = <<>>
    /\ gpu_power_data' = <<>>
    /\ mon' = MonFresh(mon.jitter)
    /\ gate_util' = -1
    /\ logged' = <<>>
    /\ flags' \in {[flags EXCEPT !.easyocr_available = e] : e \in BOOLEAN}
    /\ UNCHANGED <<fs, host, args, retval, obs, invocations, exitcode>>

\* one run of main without --watch
Run ==
    \/ DiscoverFails
    \/ Discover
    \/ StartMonitor
    \/ LoadModel
    \/ ProcessAvFile
    \/ ProcessDocFile
    \/ WrapUp
    \/ Join

\* main without --watch, run again and again: the batch
Batch == Run \/ NextRun

\* the part of main that --watch adds between the batch and the wrap-up
Watch ==
    \/ WatchdogMissing
    \/ JoinThenExit
    \/ StartWatch
    \/ WatchInterrupted
    \/ ObserverJoin

\* one run of main with --watch
Main == Run \/ Watch

-----------------------------------------------------------------------------
(* The inputs the specifications draw from.                                *)

N_a_ts == <<"a",".","t","s">>
N_a_TS == <<"a",".","T","S">>
N_b_pdf == <<"b",".","p","d","f">>
N_c_txt == <<"c",".","t","x","t">>
N_n_xy == <<"n",".","x","y">>
N_dot_ts == <<".","t","s">>
N_a_ts_txt == <<"a","_","t","s",".","t","x","t">>
N_b_pdf_txt == <<"b","_","p","d","f",".","t","x","t">>
N_e_rm == <<"e",".","r","m">>
N_e_rm_txt == <<"e","_","r","m",".","t","x","t">>
N_e_rm_dump == <<"e","_","r","m","_","d","u","m","p",".","t","x","t">>
N_a_ts_dump == <<"a","_","t","s","_","d","u","m","p",".","t","x","t">>
N_b_pdf_dump == <<"b","_","p","d","f","_","d","u","m","p",".","t","x","t">>
D_d == <<"d">>

\* input files: two audio/video names, one with an upper-case extension,
\* and a document
SourceNames == {N_a_TS, N_e_rm, N_b_pdf}

\* a filesystem holding the files keys, each with content c
FilesWith(keys, c) == [k \in keys |-> <<c>>]

SubsetsUpTo(S, n) == {T \in SUBSET S : Cardinality(T) <= n}

NonEmptySeqsUpTo(S, n) == UNION {[1..k -> S] : k \in 1..n}

\* a command line: --input-dir D [--watch], or a file list
DirArgs(D, w) == [input_dir |-> D, files |-> <<>>, watch |-> w,
                  monitoring_interval |-> DefaultInterval, device |-> "cuda",
                  gpu_threshold |-> DefaultThreshold, ignore_gpu_threshold |-> FALSE,
                  verbose |-> FALSE]
ListArgs(L) == [input_dir |-> <<>>, files |-> L, watch |-> FALSE,
                monitoring_interval |-> DefaultInterval, device |-> "cuda",
                gpu_threshold |-> DefaultThreshold, ignore_gpu_threshold |-> FALSE,
                  verbose |-> FALSE]

\* a host: which optional subsystems initialize_system_checks found
HostCuda(p, g, e, c) == [psutil_available |-> p, gpu_available |-> g,
                         easyocr_available |-> e, cuda_available |-> c]
\* a host without CUDA
Host(p, g, e) == HostCuda(p, g, e, FALSE)

MainInit ==
    /\ listing = <<>>
    /\ mainpc = "start"
    /\ eligible = <<>>
    /\ av_files = <<>>
    /\ doc_files = <<>>
    /\ cur = 0
    /\ model = "None"
    /\ run = 1
    /\ invocations = <<>>
    /\ exitcode = <<>>
    /\ obs = ObsNone
    /\ gate_util = -1
    /\ logged = <<>>
    /\ retval = <<>>
    /\ host = Unprobed

MonInit(pc, jitter) ==
    /\ stop_evt = FALSE
    /\ monpc = pc
    /\ now = 0
    /\ timestamps = <<>>
    /\ cpu_usage_data = <<>>
    /\ gpu_usage_data = <<>>
    /\ gpu_power_data = <<>>
    /\ mon = MonFresh(jitter)

-----------------------------------------------------------------------------
(* Spec: main is run MaxRuns times over one directory, on a host without   *)
(* psutil and NVML (the monitor then records timestamps only; its series   *)
(* are the subject of SpecMonitor).                                        *)

\* file lists: two categories, a path given twice, an unsupported path
MainLists ==
    { <<join(D_d, N_a_TS), join(D_d, N_b_pdf)>>,
      <<join(D_d, N_b_pdf), join(D_d, N_b_pdf)>>,
      <<join(D_d, N_n_xy), join(D_d, N_e_rm)>> }

\* --input-dir d, --input-dir x (no such directory), or a file list
MainArgs ==
    {DirArgs(D_d, FALSE), DirArgs(<<"x">>, FALSE)} \cup {ListArgs(L) : L \in MainLists}

\* --input-dir d --watch, --input-dir x --watch
WatchArgs == {DirArgs(D_d, TRUE), DirArgs(<<"x">>, TRUE)}

\* the directory d holds up to MaxFiles input files
MainFiles ==
    {FilesWith({<<D_d, n>> : n \in S}, "media") : S \in SubsetsUpTo(SourceNames, MaxFiles)}

\* the hosts: no psutil, no NVML, EasyOCR installed or not
MainHosts == {Host(FALSE, FALSE, e) : e \in BOOLEAN}

Init ==
    /\ fs \in MainFiles
    /\ args \in MainArgs
    /\ flags \in MainHosts
    /\ MainInit
    /\ MonInit("none", {0})

Next == Batch \/ Monitor

Spec == Init /\ [][Next]_vars

\* the files that are in the watched directory or arrive there: one
\* audio/video file and one document
WatchNames == {N_a_TS, N_b_pdf}

\* the watched directory d holds up to MaxWatchFiles input files at the start
WatchFiles ==
    {FilesWith({<<D_d, n>> : n \in S}, "media") : S \in SubsetsUpTo(WatchNames, MaxWatchFiles)}

\* the notifications the model delivers: for a file of the watched
\* directory, or for a subdirectory
Events ==
    {[kind |-> k, src_path |-> join(D_d, n), dest_path |-> <<>>, is_directory |-> FALSE] :
        k \in EventKinds \ {"moved"}, n \in WatchNames}
    \cup {[kind |-> "moved", src_path |-> join(D_d, N_n_xy), dest_path |-> join(D_d, n),
           is_directory |-> FALSE] : n \in WatchNames}
    \cup {[kind |-> k, src_path |-> join(D_d, <<"s">>),
           dest_path |-> IF k = "moved" THEN join(D_d, <<"t">>) ELSE <<>>,
           is_directory |-> TRUE] : k \in EventKinds}

\* a new input file is put into the watched directory
FileArrives(n) ==
    /\ mainpc = "watching"
    /\ <<D_d, n>> \notin DOMAIN fs
    /\ fs' = WriteFile(fs, join(D_d, n), "media")
    /\ UNCHANGED <<listing, mainVars, monVars>>

\* the observer's thread: one notification at a time
Observer ==
    \/ \E n \in WatchNames : FileArrives(n)
    \/ \E e \in Events : Dispatch(e)
    \/ Handle
    \/ WaitUntilComplete
    \/ Process
    \/ ProcessLoad
    \/ ProcessAv
    \/ ProcessDocs

\* whether observer.start() has been called and the observer's thread has
\* not ended: only then does the operating system's watch on the directory
\* exist and a new file produce a notification
observing == obs.pc \notin {"none", "stopped", "dead"}

\* a new input file is put into the watched directory at any time after
\* the initial scan; observer.schedule(handler, input_dir) puts its
\* "created" notification into the observer's queue if the observer runs
Arrives(n) ==
    /\ mainpc \in {"monitor", "load", "av_loop", "doc_loop", "watch", "watching"}
    /\ <<D_d, n>> \notin DOMAIN fs
    /\ fs' = WriteFile(fs, join(D_d, n), "media")
    /\ obs' = IF observing THEN [obs EXCEPT !.queue = @ \cup {join(D_d, n)}] ELSE obs
    /\ UNCHANGED <<listing, host, args, retval, logged, flags, gate_util, mainpc, eligible,
                   av_files, doc_files, cur, model, run, invocations, exitcode, monVars>>

\* the observer's thread takes a queued notification and calls on_created
DispatchQueued ==
    /\ mainpc # "obs_join"
    /\ obs.pc = "idle"
    /\ \E p \in obs.queue :
        obs' = [pc |-> "called", kind |-> "created", path |-> p,
                is_directory |-> FALSE, steps |-> <<>>,
                marked |-> marker_exists(p),
                delivered |-> obs.delivered, queue |-> obs.queue \ {p}, w |-> NoWait]
    /\ UNCHANGED <<fsVars, host, args, retval, logged, flags, gate_util, mainpc, eligible, av_files,
                   doc_files, cur, model, run, invocations, exitcode, monVars>>

\* the observer's thread when every notification comes from an arrival
ObserverLive ==
    \/ \E n \in WatchNames : Arrives(n)
    \/ DispatchQueued
    \/ Handle
    \/ WaitUntilComplete
    \/ Process
    \/ ProcessLoad
    \/ ProcessAv
    \/ ProcessDocs

\* the steps the observer's thread takes by itself
ObserverSteps ==
    DispatchQueued \/ Handle \/ WaitUntilComplete \/ Process \/ ProcessLoad
    \/ ProcessAv \/ ProcessDocs

\* the steps main takes by itself: all but the user's Ctrl-C
MainSteps == Run \/ WatchdogMissing \/ JoinThenExit \/ StartWatch \/ ObserverJoin

\* SpecWatch: the same with --watch, which adds the watch loop between the
\* batch and the wrap-up
InitWatch ==
    /\ fs \in WatchFiles
    /\ args \in WatchArgs
    /\ flags \in MainHosts
    /\ MainInit
    /\ MonInit("none", {0})

NextWatch == Main \/ Observer \/ Monitor

SpecWatch == InitWatch /\ [][NextWatch]_vars

\* SpecWatchLive: --watch with files arriving from the end of the initial
\* scan on; every thread that can take a step eventually takes one, the
\* arrivals and the user's Ctrl-C are the environment's
NextWatchLive == Main \/ ObserverLive \/ Monitor

\* ENABLED <<MainSteps>>_vars and ENABLED <<ObserverSteps>>_vars, from the
\* guards of the actions
main_runnable ==
    \/ mainpc \in {"start", "monitor", "load", "av_loop", "doc_loop", "watch", "wrapup"}
    \/ mainpc \in {"join", "join_exit1"} /\ monpc = "done"
    \/ mainpc = "obs_join" /\ obs.pc \in {"idle", "dead"}
observer_runnable ==
    \/ obs.pc \in {"called", "wait", "process", "load", "av", "doc"}
    \/ obs.pc = "idle" /\ mainpc # "obs_join" /\ obs.queue # {}

\* weak fairness of A with ENABLED <<A>>_vars written out as E:
\* WF_vars(A) is []<>~ENABLED <<A>>_vars \/ []<><<A>>_vars
SpecWatchLive ==
    /\ InitWatch
    /\ [][NextWatchLive]_vars
    /\ WF_vars(Monitor)
    /\ ([]<>~main_runnable) \/ ([]<><<MainSteps>>_vars)
    /\ ([]<>~observer_runnable) \/ ([]<><<ObserverSteps>>_vars)

-----------------------------------------------------------------------------
(* SpecStable: one notification for d/a.TS handled by NewFileHandler while  *)
(* the file is being written, with the loop of _wait_until_complete         *)
(* unfolded. Times are in tenths of a second, sizes in chunks.               *)

\* timeout: float = 30.0, in tenths of a second
WaitTimeout == 300
\* interval: float = 0.4, in tenths of a second
WaitInterval == 4

\* a faulty variant: an empty file counts as complete
stable_zero(size, last) == size = last

\* if size == last and size > 0
stable(size, last) == size = last /\ size > 0

\* os.path.getsize(path); except OSError: size = -1
getsize(p) == IF Components(p) \in DOMAIN fs THEN Len(fs[Components(p)]) ELSE -1

\* the variables the wait loop leaves alone
WaitFrame ==
    <<fsVars, host, args, retval, logged, flags, gate_util, mainpc, eligible, av_files,
      doc_files, cur, model, run, invocations, exitcode, stop_evt, monpc, timestamps,
      cpu_usage_data, gpu_usage_data, gpu_power_data, mon>>

\* deadline = time.time() + timeout; last = -1
WaitBegin ==
    /\ obs.pc = "wait"
    /\ obs' = [obs EXCEPT !.pc = "wait_test",
                          !.w = [NoWait EXCEPT !.deadline = now + WaitTimeout]]
    /\ UNCHANGED <<now, WaitFrame>>

\* while time.time() < deadline; falling out of the loop returns
WaitTest ==
    /\ obs.pc = "wait_test"
    /\ obs' = IF now < obs.w.deadline
              THEN [obs EXCEPT !.pc = "wait_read"]
              ELSE [obs EXCEPT !.pc = "process", !.steps = Append(@, "wait")]
    /\ UNCHANGED <<now, WaitFrame>>

\* size = getsize(path); if size == last and size > 0: return; last = size
WaitRead ==
    /\ obs.pc = "wait_read"
    /\ obs' = IF stable(getsize(obs.path), obs.w.last)
              THEN [obs EXCEPT !.pc = "process", !.steps = Append(@, "wait"),
                               !.w.size = getsize(obs.path), !.w.prev = obs.w.size,
                               !.w.read = @ + 1]
              ELSE [obs EXCEPT !.pc = "wait_sleep",
                               !.w.size = getsize(obs.path), !.w.prev = obs.w.size,
                               !.w.last = getsize(obs.path), !.w.read = @ + 1]
    /\ UNCHANGED <<now, WaitFrame>>

\* time.sleep(interval)
WaitSleep ==
    /\ obs.pc = "wait_sleep"
    /\ now' = now + WaitInterval
    /\ obs' = [obs EXCEPT !.pc = "wait_test"]
    /\ UNCHANGED WaitFrame

\* the writer of the file creates it empty, or appends a chunk to it
FileWritten ==
    /\ obs.pc \in {"called", "wait", "wait_test", "wait_read", "wait_sleep"}
    /\ IF Components(obs.path) \in DOMAIN fs
       THEN /\ Len(fs[Components(obs.path)]) < MaxSize
            /\ fs' = AppendFile(fs, obs.path, "media")
       ELSE fs' = (Components(obs.path) :> <<>>) @@ fs
    /\ UNCHANGED <<listing, mainVars, monVars>>

\* the file when the notification arrives: absent, empty, or one chunk long
StableFiles ==
    {<<>>, (<<D_d, N_a_TS>> :> <<>>), (<<D_d, N_a_TS>> :> <<"media">>)}

\* the notification: of any kind, for the file d/a.TS
StableEvents ==
    {[ObsNone EXCEPT !.pc = "called", !.kind = k, !.path = join(D_d, N_a_TS)] :
        k \in EventKinds}

InitStable ==
    /\ fs \in StableFiles
    /\ args = DirArgs(D_d, TRUE)
    /\ flags \in MainHosts
    /\ host = Unprobed
    /\ listing = <<>>
    /\ mainpc = "watching"
    /\ eligible = <<>>
    /\ av_files = <<>>
    /\ doc_files = <<>>
    /\ cur = 0
    /\ model = "None"
    /\ run = 1
    /\ invocations = <<>>
    /\ exitcode = <<>>
    /\ obs \in StableEvents
    /\ gate_util = -1
    /\ logged = <<>>
    /\ retval = <<>>
    /\ MonInit("none", {0})

NextStable ==
    \/ Handle
    \/ WaitBegin
    \/ WaitTest
    \/ WaitRead
    \/ WaitSleep
    \/ Process
    \/ FileWritten

SpecStable == InitStable /\ [][NextStable]_vars

-----------------------------------------------------------------------------
(* SpecMonitor: monitor_resources(stop_event, interval) on its own thread, *)
(* on every kind of host, with a caller that sets the event at some time.  *)

\* stop_event.set() by the thread that started the monitor
CallerSetsStop ==
    /\ mainpc = "caller"
    /\ ~stop_evt
    /\ stop_evt' = TRUE
    /\ UNCHANGED <<fsVars, mainVars, monpc, now, timestamps, cpu_usage_data,
                   gpu_usage_data, gpu_power_data, mon>>

InitMonitor ==
    /\ fs = FilesWith({}, "media")
    /\ args \in {[DirArgs(D_d, FALSE) EXCEPT !.monitoring_interval = i] : i \in {1, DefaultInterval}}
    /\ flags \in {Host(p, g, FALSE) : p, g \in BOOLEAN}
    /\ listing = <<>>
    /\ mainpc = "caller"
    /\ eligible = <<>>
    /\ av_files = <<>>
    /\ doc_files = <<>>
    /\ cur = 0
    /\ model = "None"
    /\ run = 1
    /\ invocations = <<>>
    /\ exitcode = <<>>
    /\ obs = ObsNone
    /\ gate_util = -1
    /\ logged = <<>>
    /\ retval = <<>>
    /\ host = Unprobed
    /\ MonInit("entry", {0, 1})

NextMonitor == Monitor \/ CallerSetsStop

SpecMonitor == InitMonitor /\ [][NextMonitor]_vars

\* the monitor's thread is scheduled as long as it can take a step
SpecMonitorLive == SpecMonitor /\ WF_vars(Monitor)

-----------------------------------------------------------------------------
(* SpecEligible: get_eligible_files called once, in either mode, over a    *)
(* directory that may already hold markers.                                *)

\* entries: the input files, a dot file without extension, a .txt file and
\* markers of earlier runs
EntryNames == {N_a_ts, N_a_TS, N_b_pdf, N_n_xy, N_dot_ts, N_c_txt, N_a_ts_txt, N_b_pdf_txt}

EligibleKeys == {<<D_d, n>> : n \in EntryNames} \cup {<<N_a_ts>>, <<N_a_ts_txt>>}

EligiblePaths ==
    {join(D_d, n) : n \in {N_a_ts, N_a_TS, N_b_pdf, N_n_xy, N_dot_ts, N_c_txt}}
    \cup {N_a_ts, <<"d", "/", "/">> \o N_b_pdf}

EligibleArgs ==
    {DirArgs(D, FALSE) : D \in {D_d, <<"d", "/">>, <<".">>}}
    \cup {[ListArgs(L) EXCEPT !.verbose = v] :
              L \in NonEmptySeqsUpTo(EligiblePaths, MaxList), v \in BOOLEAN}

\* eligible = get_eligible_files(input_dir=..., file_list=...)
CallGetEligible ==
    /\ mainpc = "call"
    /\ \E lst \in (IF args.input_dir # <<>> THEN ListdirResults(args.input_dir) ELSE {<<>>}) :
        /\ listing' = lst
        /\ eligible' = get_eligible_files(args.input_dir, args.files, lst)
    /\ logged' = logged \o eligible_log(args.input_dir, args.files, args.verbose)
    /\ mainpc' = "returned"
    /\ UNCHANGED <<fs, host, args, retval, flags, obs, gate_util, av_files, doc_files, cur, model, run,
                   invocations, exitcode, monVars>>

InitEligible ==
    /\ fs \in {FilesWith(K, "file") : K \in SubsetsUpTo(EligibleKeys, MaxEntries)}
    /\ args \in EligibleArgs
    /\ flags = Host(FALSE, FALSE, FALSE)
    /\ listing = <<>>
    /\ mainpc = "call"
    /\ eligible = <<>>
    /\ av_files = <<>>
    /\ doc_files = <<>>
    /\ cur = 0
    /\ model = "None"
    /\ run = 1
    /\ invocations = <<>>
    /\ exitcode = <<>>
    /\ obs = ObsNone
    /\ gate_util = -1
    /\ logged = <<>>
    /\ retval = <<>>
    /\ host = Unprobed
    /\ MonInit("none", {0})

NextEligible == CallGetEligible

SpecEligible == InitEligible /\ [][NextEligible]_vars

-----------------------------------------------------------------------------
(* SpecCategorize: categorize_files called once on a list of paths.        *)

N_p_JPG == <<"p",".","J","P","G">>

\* paths of both categories, with upper-case extensions, of neither category,
\* without an extension and in a folder
CategorizePaths ==
    {N_a_ts, N_a_TS, N_e_rm, N_b_pdf, N_p_JPG, N_c_txt, N_dot_ts, join(D_d, N_b_pdf)}

\* audio_video_files, document_image_files = categorize_files(files)
CallCategorize ==
    /\ mainpc = "call"
    /\ av_files' = categorize_files(args.files)[1]
    /\ doc_files' = categorize_files(args.files)[2]
    /\ mainpc' = "returned"
    /\ UNCHANGED <<fsVars, host, args, retval, logged, flags, obs, gate_util, eligible, cur, model, run,
                   invocations, exitcode, monVars>>

InitCategorize ==
    /\ fs = FilesWith({}, "file")
    /\ args \in {ListArgs(L) : L \in NonEmptySeqsUpTo(CategorizePaths, MaxList) \cup {<<>>}}
    /\ flags = Host(FALSE, FALSE, FALSE)
    /\ listing = <<>>
    /\ mainpc = "call"
    /\ eligible = <<>>
    /\ av_files = <<>>
    /\ doc_files = <<>>
    /\ cur = 0
    /\ model = "None"
    /\ run = 1
    /\ invocations = <<>>
    /\ exitcode = <<>>
    /\ obs = ObsNone
    /\ gate_util = -1
    /\ logged = <<>>
    /\ retval = <<>>
    /\ host = Unprobed
    /\ MonInit("none", {0})

NextCategorize == CallCategorize

SpecCategorize == InitCategorize /\ [][NextCategorize]_vars

-----------------------------------------------------------------------------
(* SpecEnergy: the statistics block of monitor_resources over the buffers  *)
(* a session has filled.                                                   *)

\* largest length of a buffer
MaxSeries == 3

\* gpu_power_data entries, in watts
PowerValues == {10, 20, 30}

\* timestamps entries, in seconds
TimeValues == {0, 5, 10, 15}

SeqsUpTo(S, n) == UNION {[1..k -> S] : k \in 0..n}

\* the timestamps of a session increase
Increasing(t) == \A i \in DOMAIN t : i > 1 => t[i-1] < t[i]

InitEnergy ==
    /\ fs = FilesWith({}, "media")
    /\ args = DirArgs(D_d, FALSE)
    /\ flags = Host(FALSE, TRUE, FALSE)
    /\ listing = <<>>
    /\ mainpc = "caller"
    /\ eligible = <<>>
    /\ av_files = <<>>
    /\ doc_files = <<>>
    /\ cur = 0
    /\ model = "None"
    /\ run = 1
    /\ invocations = <<>>
    /\ exitcode = <<>>
    /\ obs = ObsNone
    /\ gate_util = -1
    /\ logged = <<>>
    /\ retval = <<>>
    /\ host = Unprobed
    /\ stop_evt = TRUE
    /\ monpc = "stats"
    /\ now = 0
    /\ timestamps \in {t \in SeqsUpTo(TimeValues, MaxSeries) : Increasing(t)}
    /\ cpu_usage_data = <<>>
    /\ gpu_power_data \in SeqsUpTo(PowerValues, MaxSeries)
    /\ gpu_usage_data = [i \in DOMAIN gpu_power_data |-> 30]
    /\ mon = MonFresh({0})

NextEnergy == MonStatistics

SpecEnergy == InitEnergy /\ [][NextEnergy]_vars

-----------------------------------------------------------------------------
(* SpecGpu: one run of main over a directory, and the model loader and the *)
(* audio/video pipeline called directly, for every requested device, with  *)
(* and without CUDA and NVML.                                              *)

\* model = load_whisper_model_with_warning_suppression(name, device), called
\* directly with the device as requested
CallLoad ==
    /\ mainpc = "call_load"
    /\ model' = load_whisper_model_with_warning_suppression(args.device)
    /\ mainpc' = "call_av"
    /\ cur' = 1
    /\ UNCHANGED <<fsVars, host, args, retval, logged, flags, obs, gate_util, eligible, av_files, doc_files,
                   run, invocations, exitcode, monVars>>

\* process_audio_video_files(files, model, ..., device, ...) called directly:
\* one pass of its loop
CallProcessAv ==
    /\ mainpc = "call_av"
    /\ cur \in DOMAIN args.files
    /\ \E o \in ThreadOutcomes :
        /\ invocations' = Append(invocations,
               [run |-> run, path |-> args.files[cur], call |-> "transcribe",
                result |-> o, fp16 |-> fp16(args.device), on |-> model])
        /\ fs' = av_footer(av_try(av_header(fs, args.files[cur]), args.files[cur], o),
                           args.files[cur])
    /\ IF cur < Len(args.files)
       THEN cur' = cur + 1 /\ mainpc' = "call_av"
       ELSE cur' = 0 /\ mainpc' = "returned"
    /\ UNCHANGED <<listing, host, args, retval, logged, flags, obs, gate_util, eligible, av_files, doc_files,
                   model, run, exitcode, monVars>>

\* the command lines: --device, --ignore-gpu-threshold
GpuArgs(A) ==
    {[A EXCEPT !.device = d, !.ignore_gpu_threshold = i] :
        d \in {"cuda", "cpu"}, i \in BOOLEAN}

InitGpu ==
    /\ fs = FilesWith({<<D_d, N_a_TS>>, <<D_d, N_e_rm>>, <<D_d, N_b_pdf>>}, "media")
    /\ flags \in {HostCuda(FALSE, g, TRUE, c) : g, c \in BOOLEAN}
    /\ \/ /\ mainpc = "start"
          /\ args \in GpuArgs(DirArgs(D_d, FALSE)) \cup GpuArgs(DirArgs(<<"x">>, FALSE))
       \/ /\ mainpc = "call_load"
          /\ args \in UNION {GpuArgs(ListArgs(L)) :
                                L \in NonEmptySeqsUpTo({join(D_d, N_a_TS), join(D_d, N_e_rm)},
                                                       MaxList)}
    /\ listing = <<>>
    /\ eligible = <<>>
    /\ av_files = <<>>
    /\ doc_files = <<>>
    /\ cur = 0
    /\ model = "None"
    /\ run = 1
    /\ invocations = <<>>
    /\ exitcode = <<>>
    /\ obs = ObsNone
    /\ gate_util = -1
    /\ logged = <<>>
    /\ retval = <<>>
    /\ host = Unprobed
    /\ MonInit("none", {0})

NextGpu == Run \/ Monitor \/ CallLoad \/ CallProcessAv

SpecGpu == InitGpu /\ [][NextGpu]_vars

-----------------------------------------------------------------------------
(* SpecPipelines: process_audio_video_files(files, ...) and                *)
(* process_document_files(files) called directly, as their tests call      *)
(* them, with a list that may be empty, over a directory that may hold the *)
(* artifacts of an earlier run.                                            *)

\* a faulty variant: the pipeline goes on with an empty list
no_files_never(files) == FALSE

\* if not files:
no_files(files) == files = <<>>

\* process_audio_video_files: the test of files before the loop
EnterProcessAv ==
    /\ mainpc = "enter_av"
    /\ IF no_files(args.files)
       THEN /\ logged' = Append(logged, Line("info", "No audio/video files to process.", <<>>))
            /\ mainpc' = "returned"
            /\ UNCHANGED cur
       ELSE /\ mainpc' = "call_av"
            /\ cur' = 1
            /\ UNCHANGED logged
    /\ UNCHANGED <<fsVars, host, args, retval, flags, obs, gate_util, eligible, av_files, doc_files,
                   model, run, invocations, exitcode, monVars>>

\* process_document_files: the test of files before the loop
EnterProcessDocs ==
    /\ mainpc = "enter_doc"
    /\ IF no_files(args.files)
       THEN /\ logged' = Append(logged, Line("info", "No document/image files to process.", <<>>))
            /\ mainpc' = "returned"
            /\ UNCHANGED cur
       ELSE /\ logged' = Append(logged, Line("info", "Processing document/image files with OCR", <<>>))
            /\ mainpc' = "call_doc"
            /\ cur' = 1
    /\ UNCHANGED <<fsVars, host, args, retval, flags, obs, gate_util, eligible, av_files, doc_files,
                   model, run, invocations, exitcode, monVars>>

\* process_document_files called directly: one pass of its loop
CallProcessDoc ==
    /\ mainpc = "call_doc"
    /\ cur \in DOMAIN args.files
    /\ \E o \in (IF flags.easyocr_available THEN ThreadOutcomes ELSE {"unavailable"}) :
        /\ invocations' = Append(invocations,
               [run |-> run, path |-> args.files[cur], call |-> "ocr", result |-> o,
                fp16 |-> FALSE, on |-> "None"])
        /\ fs' = doc_footer(doc_try(doc_header(fs, args.files[cur]), args.files[cur],
                                    process_document_with_ocr(o)),
                            args.files[cur])
    /\ IF cur < Len(args.files)
       THEN cur' = cur + 1 /\ mainpc' = "call_doc"
       ELSE cur' = 0 /\ mainpc' = "returned"
    /\ UNCHANGED <<listing, host, args, retval, logged, flags, obs, gate_util, eligible, av_files,
                   doc_files, model, run, exitcode, monVars>>

\* what the directory may hold before the call
PipelineKeys ==
    {<<D_d, n>> : n \in {N_a_TS, N_b_pdf, N_a_ts_txt, N_a_ts_dump, N_b_pdf_txt, N_b_pdf_dump}}

InitPipelines ==
    /\ fs \in {FilesWith(K, "old") : K \in SUBSET PipelineKeys}
    /\ flags \in {Host(FALSE, FALSE, e) : e \in BOOLEAN}
    /\ \/ /\ mainpc = "enter_av"
          /\ args \in {ListArgs(L) :
                           L \in SeqsUpTo({join(D_d, N_a_TS), join(D_d, N_e_rm)}, MaxList)}
       \/ /\ mainpc = "enter_doc"
          /\ args \in {ListArgs(L) : L \in SeqsUpTo({join(D_d, N_b_pdf)}, MaxList)}
    /\ listing = <<>>
    /\ eligible = <<>>
    /\ av_files = <<>>
    /\ doc_files = <<>>
    /\ cur = 0
    /\ model = "cpu"
    /\ run = 1
    /\ invocations = <<>>
    /\ exitcode = <<>>
    /\ obs = ObsNone
    /\ gate_util = -1
    /\ logged = <<>>
    /\ retval = <<>>
    /\ host = Unprobed
    /\ MonInit("none", {0})

NextPipelines == EnterProcessAv \/ CallProcessAv \/ EnterProcessDocs \/ CallProcessDoc

SpecPipelines == InitPipelines /\ [][NextPipelines]_vars

-----------------------------------------------------------------------------
(* SpecDump: one call of process_audio_video_files or                       *)
(* process_document_files with a non-empty list, each pass of the loop      *)
(* unfolded into its writes, over a directory that may hold the artifacts   *)
(* of an earlier run.                                                       *)

\* the positions of a pass of the loop of pipeline pl ("av" or "doc")
PassPc ==
    [av  |-> [header |-> "av_header", call |-> "av_call", body |-> "av_body",
              marker |-> "av_marker", error |-> "av_error", footer |-> "av_footer"],
     doc |-> [header |-> "doc_header", call |-> "doc_call", body |-> "doc_body",
              marker |-> "doc_marker", error |-> "doc_error", footer |-> "doc_footer"]]

\* dump / dump_file and txt / txt_file of the pass
dump_file(pl, fp) == IF pl = "av" THEN av_dump(fp) ELSE doc_dump_file(fp)
txt_file(pl, fp) == IF pl = "av" THEN av_txt(fp) ELSE doc_txt_file(fp)

\* how model.transcribe / process_document_with_ocr can end
PassOutcomes(pl) ==
    IF pl = "av" \/ flags.easyocr_available THEN CallOutcomes ELSE {"unavailable"}

\* text / extracted_text when the call returns
PassText(pl, o) == IF pl = "av" THEN TRANSCRIPT ELSE process_document_with_ocr(o)

\* where the pass goes after the call: on with the try block when it
\* returns, to the handler for an exception the pipeline catches, out of the
\* pipeline otherwise
after_call(pl, o) ==
    IF o \in {"ok", "unavailable"} \/ (pl = "doc" /\ o \in ocr_caught) THEN PassPc[pl].body
    ELSE IF pl = "av" /\ o \in av_caught THEN PassPc[pl].error
    ELSE "raised"

\* the variables a pass leaves alone
PassFrame ==
    <<listing, host, args, logged, flags, obs, gate_util, eligible, av_files, doc_files,
      model, run, exitcode, monVars>>

\* with open(dump, "w"): the header
DumpHeader(pl) ==
    /\ mainpc = PassPc[pl].header
    /\ fs' = IF pl = "av" THEN av_header(fs, args.files[cur])
                          ELSE doc_header(fs, args.files[cur])
    /\ mainpc' = PassPc[pl].call
    /\ UNCHANGED <<cur, retval, invocations, PassFrame>>

\* out = model.transcribe(fp, ...) / extracted_text = process_document_with_ocr(file_path)
DumpCall(pl) ==
    /\ mainpc = PassPc[pl].call
    /\ \E o \in PassOutcomes(pl) :
        /\ invocations' = Append(invocations,
               [run |-> run, path |-> args.files[cur],
                call |-> IF pl = "av" THEN "transcribe" ELSE "ocr", result |-> o,
                fp16 |-> FALSE, on |-> model])
        /\ mainpc' = after_call(pl, o)
        /\ retval' = IF after_call(pl, o) = PassPc[pl].body THEN <<PassText(pl, o)>> ELSE <<>>
    /\ UNCHANGED <<fs, cur, PassFrame>>

\* with open(dump, "a"): f.write(text)
DumpBody(pl) ==
    /\ mainpc = PassPc[pl].body
    /\ fs' = AppendFile(fs, dump_file(pl, args.files[cur]), retval[1])
    /\ mainpc' = PassPc[pl].marker
    /\ UNCHANGED <<cur, retval, invocations, PassFrame>>

\* with open(txt, "w"): f.write(text)
DumpMarker(pl) ==
    /\ mainpc = PassPc[pl].marker
    /\ fs' = WriteFile(fs, txt_file(pl, args.files[cur]), retval[1])
    /\ mainpc' = PassPc[pl].footer
    /\ UNCHANGED <<cur, retval, invocations, PassFrame>>

\* except Exception as e: with open(dump, "a"): the ERROR line
DumpError(pl) ==
    /\ mainpc = PassPc[pl].error
    /\ fs' = AppendFile(fs, dump_file(pl, args.files[cur]), ERROR_LINE)
    /\ mainpc' = PassPc[pl].footer
    /\ UNCHANGED <<cur, retval, invocations, PassFrame>>

\* with open(dump, "a"): the summary; then the next file
DumpFooter(pl) ==
    /\ mainpc = PassPc[pl].footer
    /\ fs' = IF pl = "av" THEN av_footer(fs, args.files[cur])
                          ELSE doc_footer(fs, args.files[cur])
    /\ IF cur < Len(args.files)
       THEN cur' = cur + 1 /\ mainpc' = PassPc[pl].header
       ELSE cur' = 0 /\ mainpc' = "returned"
    /\ retval' = <<>>
    /\ UNCHANGED <<invocations, PassFrame>>

InitDump ==
    /\ fs \in {FilesWith(K, "old") : K \in SUBSET PipelineKeys}
    /\ flags \in {Host(FALSE, FALSE, e) : e \in BOOLEAN}
    /\ \/ /\ mainpc = PassPc.av.header
          /\ model = "cpu"
          /\ args \in {ListArgs(L) :
                           L \in NonEmptySeqsUpTo({join(D_d, N_a_TS), join(D_d, N_e_rm)}, MaxList)}
       \/ /\ mainpc = PassPc.doc.header
          /\ model = "None"
          /\ args \in {ListArgs(L) : L \in NonEmptySeqsUpTo({join(D_d, N_b_pdf)}, MaxList)}
    /\ listing = <<>>
    /\ eligible = <<>>
    /\ av_files = <<>>
    /\ doc_files = <<>>
    /\ cur = 1
    /\ run = 1
    /\ invocations = <<>>
    /\ exitcode = <<>>
    /\ obs = ObsNone
    /\ gate_util = -1
    /\ logged = <<>>
    /\ retval = <<>>
    /\ host = Unprobed
    /\ MonInit("none", {0})

NextDump ==
    \E pl \in {"av", "doc"} :
        \/ DumpHeader(pl)
        \/ DumpCall(pl)
        \/ DumpBody(pl)
        \/ DumpMarker(pl)
        \/ DumpError(pl)
        \/ DumpFooter(pl)

SpecDump == InitDump /\ [][NextDump]_vars

-----------------------------------------------------------------------------
(* SpecChecks: initialize_system_checks(verbose) called once, or once      *)
(* more, on every kind of host.                                            *)

\* import torch and torch.cuda.is_available(): a CUDA build with a device, a
\* CPU-only build that reports a device, no device, no torch, or an
\* exception other than ImportError
TorchOutcomes == {"cuda", "cpu_build", "no_cuda", "ImportError", "Exception"}

\* subprocess.run(['ffprobe', '-version']): return code 0 or not, no such
\* binary, or another exception
FfprobeOutcomes == {"ok", "nonzero", "FileNotFoundError", "Exception"}

\* an import (and nvmlInit() for pynvml): done, ImportError, or another
\* exception
ImportOutcomes == {"ok", "ImportError", "Exception"}

\* the module-level flags, all b
AllFlags(b) ==
    [cuda_available |-> b, ffprobe_available |-> b, psutil_available |-> b,
     pynvml_available |-> b, gpu_available |-> b, easyocr_available |-> b]

\* try: import torch ... except ImportError
CheckCuda ==
    /\ mainpc = "check_cuda"
    /\ IF host.torch = "Exception"
       THEN mainpc' = "raised" /\ UNCHANGED flags
       ELSE /\ flags' = [flags EXCEPT !.cuda_available = (host.torch = "cuda")]
            /\ mainpc' = "check_ffprobe"
    /\ UNCHANGED <<fsVars, host, args, retval, logged, obs, gate_util, eligible, av_files, doc_files,
                   cur, model, run, invocations, exitcode, monVars>>

\* try: subprocess.run ... except FileNotFoundError ... except Exception
CheckFfprobe ==
    /\ mainpc = "check_ffprobe"
    /\ flags' = [flags EXCEPT !.ffprobe_available = (host.ffprobe = "ok")]
    /\ mainpc' = "check_psutil"
    /\ UNCHANGED <<fsVars, host, args, retval, logged, obs, gate_util, eligible, av_files, doc_files,
                   cur, model, run, invocations, exitcode, monVars>>

\* try: import psutil ... except ImportError
CheckPsutil ==
    /\ mainpc = "check_psutil"
    /\ IF host.psutil = "Exception"
       THEN mainpc' = "raised" /\ UNCHANGED flags
       ELSE /\ flags' = [flags EXCEPT !.psutil_available = (host.psutil = "ok")]
            /\ mainpc' = "check_gpu"
    /\ UNCHANGED <<fsVars, host, args, retval, logged, obs, gate_util, eligible, av_files, doc_files,
                   cur, model, run, invocations, exitcode, monVars>>

\* try: import pynvml; nvmlInit() ... except (ImportError, Exception)
CheckGpu ==
    /\ mainpc = "check_gpu"
    /\ flags' = [flags EXCEPT !.pynvml_available = (host.pynvml = "ok"),
                              !.gpu_available = (host.pynvml = "ok")]
    /\ mainpc' = "check_easyocr"
    /\ UNCHANGED <<fsVars, host, args, retval, logged, obs, gate_util, eligible, av_files, doc_files,
                   cur, model, run, invocations, exitcode, monVars>>

\* try: import easyocr; try: import fitz except ImportError ... except
\* ImportError
CheckEasyocr ==
    /\ mainpc = "check_easyocr"
    /\ IF host.easyocr = "Exception"
       THEN mainpc' = "raised" /\ UNCHANGED flags
       ELSE IF host.easyocr = "ImportError"
       THEN mainpc' = "checked" /\ flags' = [flags EXCEPT !.easyocr_available = FALSE]
       ELSE /\ flags' = [flags EXCEPT !.easyocr_available = TRUE]
            /\ mainpc' = IF host.fitz = "Exception" THEN "raised" ELSE "checked"
    /\ UNCHANGED <<fsVars, host, args, retval, logged, obs, gate_util, eligible, av_files, doc_files,
                   cur, model, run, invocations, exitcode, monVars>>

InitChecks ==
    /\ fs = FilesWith({}, "file")
    /\ host \in [torch : TorchOutcomes, ffprobe : FfprobeOutcomes, psutil : ImportOutcomes,
                  pynvml : ImportOutcomes, easyocr : ImportOutcomes, fitz : ImportOutcomes]
    /\ args = DirArgs(D_d, FALSE)
    /\ flags \in {AllFlags(FALSE), AllFlags(TRUE)}
    /\ listing = <<>>
    /\ mainpc = "check_cuda"
    /\ eligible = <<>>
    /\ av_files = <<>>
    /\ doc_files = <<>>
    /\ cur = 0
    /\ model = "None"
    /\ run = 1
    /\ invocations = <<>>
    /\ exitcode = <<>>
    /\ obs = ObsNone
    /\ gate_util = -1
    /\ logged = <<>>
    /\ retval = <<>>
    /\ MonInit("none", {0})

NextChecks == CheckCuda \/ CheckFfprobe \/ CheckPsutil \/ CheckGpu \/ CheckEasyocr

SpecChecks == InitChecks /\ [][NextChecks]_vars

-----------------------------------------------------------------------------
(* SpecFunctions: media.estimate_processing_time and                       *)
(* utils.format_time_for_display called on their own.  Floats are kept as  *)
(* integers: an estimate in units of 0.0001 s, a time to display in units  *)
(* of 0.01 s, a displayed number in hundredths of its unit.                *)

\* name in "..." : a substring test on Python strings
Contains(name, sub) ==
    \E i \in 1..(Len(name) - Len(sub) + 1) : SubSeq(name, i, i + Len(sub) - 1) = sub

RTX_4070 == <<"R","T","X"," ","4","0","7","0">>
RTX_4060_Ti == <<"R","T","X"," ","4","0","6","0"," ","T","i">>

\* a faulty variant: the estimate without the test of the GPU flags
estimate_processing_time_unguarded(duration) ==
    IF host.nvmlDeviceGetName = "raises" THEN 0
    ELSE IF Contains(host.name, RTX_4070) THEN 1894 * duration + 1202099
    ELSE IF Contains(host.name, RTX_4060_Ti) THEN 3162 * duration + 409230
    ELSE 0

\* estimate_processing_time(duration), duration in whole seconds, the result
\* in units of 0.0001 s
estimate_processing_time(duration) ==
    IF ~(flags.gpu_available /\ flags.pynvml_available) THEN 0
    ELSE IF host.nvmlDeviceGetName = "raises" THEN 0
    ELSE IF Contains(host.name, RTX_4070) THEN 1894 * duration + 1202099
    ELSE IF Contains(host.name, RTX_4060_Ti) THEN 3162 * duration + 409230
    ELSE 0

\* f"{x:.2f}" of x = num / den: the nearest number of hundredths; a tie is
\* decided by the binary representation of the float, so either neighbour
format_2f(num, den) ==
    LET q == (100 * num) \div den
        r == (100 * num) % den
    IN  IF 2 * r < den THEN {q}
        ELSE IF 2 * r > den THEN {q + 1}
        ELSE {q, q + 1}

\* a faulty variant: the boundaries belong to the smaller unit
format_time_for_display_inclusive(cs) ==
    IF cs <= 60 * 100
    THEN {[number |-> n, unit |-> "seconds", seconds |-> <<>>] : n \in format_2f(cs, 100)}
    ELSE IF cs <= 3600 * 100
    THEN {[number |-> n, unit |-> "minutes", seconds |-> <<s>>] :
             n \in format_2f(cs, 60 * 100), s \in format_2f(cs, 100)}
    ELSE IF cs <= 86400 * 100
    THEN {[number |-> n, unit |-> "hours", seconds |-> <<s>>] :
             n \in format_2f(cs, 3600 * 100), s \in format_2f(cs, 100)}
    ELSE {[number |-> n, unit |-> "days", seconds |-> <<s>>] :
             n \in format_2f(cs, 86400 * 100), s \in format_2f(cs, 100)}

\* format_time_for_display(seconds), seconds = cs / 100: the strings it can
\* return, as the number printed, its unit and the seconds in parentheses
format_time_for_display(cs) ==
    IF cs < 60 * 100
    THEN {[number |-> n, unit |-> "seconds", seconds |-> <<>>] : n \in format_2f(cs, 100)}
    ELSE IF cs < 3600 * 100
    THEN {[number |-> n, unit |-> "minutes", seconds |-> <<s>>] :
             n \in format_2f(cs, 60 * 100), s \in format_2f(cs, 100)}
    ELSE IF cs < 86400 * 100
    THEN {[number |-> n, unit |-> "hours", seconds |-> <<s>>] :
             n \in format_2f(cs, 3600 * 100), s \in format_2f(cs, 100)}
    ELSE {[number |-> n, unit |-> "days", seconds |-> <<s>>] :
             n \in format_2f(cs, 86400 * 100), s \in format_2f(cs, 100)}

\* result = estimate_processing_time(duration)
CallEstimate ==
    /\ mainpc = "call_estimate"
    /\ retval' = <<estimate_processing_time(args.duration)>>
    /\ mainpc' = "returned"
    /\ UNCHANGED <<fsVars, host, args, logged, flags, obs, gate_util, eligible, av_files,
                   doc_files, cur, model, run, invocations, exitcode, monVars>>

\* result = format_time_for_display(seconds)
CallFormat ==
    /\ mainpc = "call_format"
    /\ \E v \in format_time_for_display(args.seconds) : retval' = <<v>>
    /\ mainpc' = "returned"
    /\ UNCHANGED <<fsVars, host, args, logged, flags, obs, gate_util, eligible, av_files,
                   doc_files, cur, model, run, invocations, exitcode, monVars>>

\* what nvmlDeviceGetName reports: the two known models, a Ti variant of the
\* first, the second without its Ti, and an unknown model
GpuNames ==
    {<<"N","V","I","D","I","A"," ","G","e","F","o","r","c","e"," ","R","T","X"," ","4","0","7","0">>,
     <<"N","V","I","D","I","A"," ","G","e","F","o","r","c","e"," ","R","T","X"," ","4","0","6","0"," ","T","i">>,
     <<"N","V","I","D","I","A"," ","G","e","F","o","r","c","e"," ","R","T","X"," ","4","0","7","0"," ","T","i">>,
     <<"N","V","I","D","I","A"," ","G","e","F","o","r","c","e"," ","R","T","X"," ","4","0","6","0">>,
     <<"N","V","I","D","I","A"," ","U","n","k","n","o","w","n"," ","M","o","d","e","l">>}

\* durations of media files, in seconds
Durations == {0, 1, 60, 300, 3600}

\* times to display, in hundredths of a second: the test's values, both
\* sides of every boundary, and a tie of the minutes (2.005)
DisplayTimes ==
    {0, 4550, 5999, 6000, 12030, 12575, 359999, 360000, 372500,
     8639999, 8640000, 9000000}

InitFunctions ==
    /\ \/ /\ mainpc = "call_estimate"
          /\ args \in {[duration |-> d] : d \in Durations}
          /\ flags \in {[AllFlags(FALSE) EXCEPT !.gpu_available = g, !.pynvml_available = n] :
                            g, n \in BOOLEAN}
          /\ host \in {[nvmlDeviceGetName |-> o, name |-> n] :
                           o \in {"returns", "raises"}, n \in GpuNames}
       \/ /\ mainpc = "call_format"
          /\ args \in {[seconds |-> cs] : cs \in DisplayTimes}
          /\ flags = AllFlags(FALSE)
          /\ host = Unprobed
    /\ fs = <<>>
    /\ listing = <<>>
    /\ eligible = <<>>
    /\ av_files = <<>>
    /\ doc_files = <<>>
    /\ cur = 0
    /\ model = "None"
    /\ run = 1
    /\ invocations = <<>>
    /\ exitcode = <<>>
    /\ obs = ObsNone
    /\ gate_util = -1
    /\ logged = <<>>
    /\ retval = <<>>
    /\ MonInit("none", {0})

NextFunctions == CallEstimate \/ CallFormat

SpecFunctions == InitFunctions /\ [][NextFunctions]_vars

-----------------------------------------------------------------------------
(* SpecOcr: process_document_with_ocr(file_path) called once, with every   *)
(* way each of its calls into EasyOCR and PyMuPDF can end.                 *)

\* the calls process_document_with_ocr makes for file_path when none of
\* them fails: the reader, then for a PDF fitz.open and the pages (readtext
\* on a page without text of its own), or readtext on the file when fitz
\* cannot be imported or the file is an image
ocr_calls(file_path) ==
    IF ~flags.easyocr_available THEN <<>>
    ELSE IF lower(splitext(file_path)[2]) = <<".","p","d","f">> /\ host.fitz = "ok"
    THEN (IF host.page_text THEN <<"Reader", "open">>
          ELSE <<"Reader", "open", "readtext">>)
    ELSE <<"Reader", "readtext">>

\* the first of the calls that does not end well, or 0
first_failure(calls) ==
    IF \A i \in DOMAIN calls : host[calls[i]] = "ok" THEN 0
    ELSE CHOOSE i \in DOMAIN calls :
             /\ host[calls[i]] # "ok"
             /\ \A j \in 1..(i - 1) : host[calls[j]] = "ok"

\* the calls made: up to the first that raises
ocr_calls_made(file_path) ==
    IF first_failure(ocr_calls(file_path)) = 0 THEN ocr_calls(file_path)
    ELSE SubSeq(ocr_calls(file_path), 1, first_failure(ocr_calls(file_path)))

\* how the try block of process_document_with_ocr ends
ocr_outcome(file_path) ==
    IF first_failure(ocr_calls(file_path)) = 0 THEN "ok"
    ELSE host[ocr_calls(file_path)[first_failure(ocr_calls(file_path))]]

\* text = process_document_with_ocr(file_path), called directly
CallOcr ==
    /\ mainpc = "call"
    /\ invocations' = Append(invocations,
           [run |-> run, path |-> args.files[1], call |-> "ocr",
            result |-> ocr_outcome(args.files[1]), fp16 |-> FALSE, on |-> "None",
            engine |-> ocr_calls_made(args.files[1]),
            returned |-> IF ocr_outcome(args.files[1]) \in {"ok"} \cup ocr_caught
                         THEN process_document_with_ocr(ocr_outcome(args.files[1]))
                         ELSE "(raised)"])
    /\ mainpc' = IF ocr_outcome(args.files[1]) \in {"ok"} \cup ocr_caught
                 THEN "returned" ELSE "raised"
    /\ UNCHANGED <<fsVars, host, args, retval, logged, flags, obs, gate_util, eligible, av_files,
                   doc_files, cur, model, run, exitcode, monVars>>

InitOcr ==
    /\ fs = FilesWith({<<N_b_pdf>>, <<N_p_JPG>>}, "media")
    /\ host \in [Reader : CallOutcomes, fitz : {"ok", "ImportError"},
                  page_text : BOOLEAN, open : CallOutcomes,
                  readtext : CallOutcomes]
    /\ args \in {ListArgs(<<p>>) : p \in {N_b_pdf, N_p_JPG}}
    /\ flags \in {Host(FALSE, FALSE, e) : e \in BOOLEAN}
    /\ listing = <<>>
    /\ mainpc = "call"
    /\ eligible = <<>>
    /\ av_files = <<>>
    /\ doc_files = <<>>
    /\ cur = 0
    /\ model = "None"
    /\ run = 1
    /\ invocations = <<>>
    /\ exitcode = <<>>
    /\ obs = ObsNone
    /\ gate_util = -1
    /\ logged = <<>>
    /\ retval = <<>>
    /\ MonInit("none", {0})

NextOcr == CallOcr

SpecOcr == InitOcr /\ [][NextOcr]_vars

-----------------------------------------------------------------------------
(* SpecPdf: the PDF branch of process_document_with_ocr with EasyOCR and   *)
(* PyMuPDF available, page by page.  host.pages is the document: for each  *)
(* page what get_text returns, and what readtext would do with its image.  *)
(* cur is page_num, listing is all_text, invocations the readtext calls.   *)

NL == "\n"
DecimalDigits == <<"0", "1", "2", "3", "4", "5", "6", "7", "8", "9">>

\* str(n) of a natural number
RECURSIVE str(_)
str(n) ==
    IF n < 10 THEN <<DecimalDigits[n + 1]>>
    ELSE str(n \div 10) \o <<DecimalDigits[(n % 10) + 1]>>

\* a strip that removes blanks only
strip_blanks_only(text) ==
    LET keep == {i \in DOMAIN text : text[i] # " "}
    IN  IF keep = {} THEN <<>>
        ELSE SubSeq(text, CHOOSE i \in keep : \A j \in keep : i <= j,
                          CHOOSE i \in keep : \A j \in keep : i >= j)

\* text.strip(): leading and trailing whitespace removed
strip(text) ==
    LET keep == {i \in DOMAIN text : text[i] \notin {" ", NL, "\t", "\r"}}
    IN  IF keep = {} THEN <<>>
        ELSE SubSeq(text, CHOOSE i \in keep : \A j \in keep : i <= j,
                          CHOOSE i \in keep : \A j \in keep : i >= j)

\* sep.join(parts)
RECURSIVE str_join(_, _)
str_join(sep, parts) ==
    IF parts = <<>> THEN <<>>
    ELSE IF Len(parts) = 1 THEN parts[1]
    ELSE parts[1] \o sep \o str_join(sep, Tail(parts))

\* f"--- Page {page_num + 1} (direct text) ---\n{text}\n"
direct_block(page_num, text) ==
    <<"-", "-", "-", " ", "P", "a", "g", "e", " ">> \o str(page_num + 1)
        \o <<" ", "(", "d", "i", "r", "e", "c", "t", " ", "t", "e", "x", "t", ")", " ",
              "-", "-", "-", NL>>
        \o text \o <<NL>>

\* f"--- Page {page_num + 1} (OCR) ---\n{ocr_text}\n"
ocr_block(page_num, ocr_text) ==
    <<"-", "-", "-", " ", "P", "a", "g", "e", " ">> \o str(page_num + 1)
        \o <<" ", "(", "O", "C", "R", ")", " ", "-", "-", "-", NL>>
        \o ocr_text \o <<NL>>

\* where the loop over range(len(doc)) goes after page page_num
after_page(page_num) ==
    IF page_num + 1 < Len(host.pages) THEN "pdf_page" ELSE "pdf_join"

PdfFrame ==
    <<fs, host, args, logged, flags, obs, gate_util, eligible, av_files, doc_files,
      model, run, exitcode, monVars>>

\* doc = fitz.open(file_path); all_text = []
PdfOpen ==
    /\ mainpc = "pdf_open"
    /\ listing' = <<>>
    /\ cur' = 0
    /\ mainpc' = IF Len(host.pages) > 0 THEN "pdf_page" ELSE "pdf_join"
    /\ UNCHANGED <<retval, invocations>>
    /\ UNCHANGED PdfFrame

\* page = doc.load_page(page_num); text = page.get_text(); if text.strip()
\* the block of the page is its own text
PdfGetText ==
    /\ mainpc = "pdf_page"
    /\ IF strip(host.pages[cur + 1].text) # <<>>
       THEN /\ listing' = Append(listing, direct_block(cur, host.pages[cur + 1].text))
            /\ mainpc' = after_page(cur)
            /\ cur' = cur + 1
       ELSE /\ mainpc' = "pdf_ocr"
            /\ UNCHANGED <<listing, cur>>
    /\ UNCHANGED <<retval, invocations>>
    /\ UNCHANGED PdfFrame

\* results = reader.readtext(img_data) on the image of the page; when it
\* raises, the except clause of the function returns the error text
PdfReadtext ==
    /\ mainpc = "pdf_ocr"
    /\ invocations' = Append(invocations,
           [run |-> run, path |-> args.files[1], call |-> "readtext", page |-> cur,
            result |-> host.pages[cur + 1].readtext])
    /\ IF host.pages[cur + 1].readtext = "ok"
       THEN /\ listing' = Append(listing,
                   ocr_block(cur, str_join(<<NL>>, host.pages[cur + 1].results)))
            /\ mainpc' = after_page(cur)
            /\ cur' = cur + 1
            /\ UNCHANGED retval
       ELSE /\ retval' = <<OCR_ERROR_TEXT>>
            /\ mainpc' = "returned"
            /\ UNCHANGED <<listing, cur>>
    /\ UNCHANGED PdfFrame

\* doc.close(); extracted_text = "\n".join(all_text); return extracted_text
PdfJoin ==
    /\ mainpc = "pdf_join"
    /\ retval' = <<str_join(<<NL>>, listing)>>
    /\ mainpc' = "returned"
    /\ UNCHANGED <<listing, cur, invocations>>
    /\ UNCHANGED PdfFrame

\* what get_text returns for a page: nothing, whitespace only, or text
PageTexts == {<<>>, <<" ", NL>>, <<" ", "T", NL>>}

\* what readtext does with the image of a page: the texts of its results,
\* or an exception
PageOcr ==
    {[readtext |-> "ok", results |-> <<>>],
     [readtext |-> "ok", results |-> <<(<<"x">>), (<<"y", "z">>)>>],
     [readtext |-> "Exception", results |-> <<>>]}

PdfPages ==
    {[text |-> t, readtext |-> o.readtext, results |-> o.results] :
        t \in PageTexts, o \in PageOcr}

InitPdf ==
    /\ fs = FilesWith({<<N_b_pdf>>}, "media")
    /\ host \in {[pages |-> P] : P \in SeqsUpTo(PdfPages, MaxPages)}
    /\ args = ListArgs(<<N_b_pdf>>)
    /\ flags = Host(FALSE, FALSE, TRUE)
    /\ listing = <<>>
    /\ mainpc = "pdf_open"
    /\ eligible = <<>>
    /\ av_files = <<>>
    /\ doc_files = <<>>
    /\ cur = 0
    /\ model = "None"
    /\ run = 1
    /\ invocations = <<>>
    /\ exitcode = <<>>
    /\ obs = ObsNone
    /\ gate_util = -1
    /\ logged = <<>>
    /\ retval = <<>>
    /\ MonInit("none", {0})

NextPdf == PdfOpen \/ PdfGetText \/ PdfReadtext \/ PdfJoin

SpecPdf == InitPdf /\ [][NextPdf]_vars

-----------------------------------------------------------------------------
(* What the claims are stated with.                                        *)

\* the artifact names the naming scheme {base}_{extNoDot}.txt and
\* {base}_{extNoDot}_dump.txt gives the supported input names, written out
MarkerNameOf ==
    (N_a_ts :> N_a_ts_txt) @@ (N_a_TS :> N_a_ts_txt) @@ (N_e_rm :> N_e_rm_txt)
    @@ (N_b_pdf :> N_b_pdf_txt)
DumpNameOf ==
    (N_a_ts :> N_a_ts_dump) @@ (N_a_TS :> N_a_ts_dump) @@ (N_e_rm :> N_e_rm_dump)
    @@ (N_b_pdf :> N_b_pdf_dump)

Last(s) == s[Len(s)]
NameOf(p) == Last(Components(p))
FolderOf(p) == SubSeq(Components(p), 1, Len(Components(p)) - 1)
Supported(p) == Components(p) # <<>> /\ NameOf(p) \in DOMAIN MarkerNameOf

\* the marker and the dump of every supported path of the input universes
KeysOf ==
    [p \in {q \in EligiblePaths \cup {join(D_d, n) : n \in SourceNames} : Supported(q)} |->
        [marker |-> FolderOf(p) \o <<MarkerNameOf[NameOf(p)]>>,
         dump   |-> FolderOf(p) \o <<DumpNameOf[NameOf(p)]>>]]
MarkerKey(p) == KeysOf[p].marker
DumpKey(p) == KeysOf[p].dump
OnDisk(k) == k \in DOMAIN fs

\* the calls of one kind made in run k, in order
RunCalls(k, call) == SelectSeq(invocations, LAMBDA r : r.run = k /\ r.call = call)
PathsOf(s) == [i \in DOMAIN s |-> s[i].path]
Range(s) == {s[i] : i \in DOMAIN s}

\* the try block of the pipeline wrote the marker after this call
WroteMarker(r) ==
    \/ r.call = "transcribe" /\ r.result = "ok"
    \/ r.call = "ocr" /\ r.result \in {"ok", "unavailable", "Exception"}

\* main is past its scan of the current run
Scanned == mainpc # "start"

\* process_audio_video_files / process_document_files has returned to main
AvReturned ==
    mainpc \in {"doc_loop", "watch", "watching", "wrapup", "join", "join_exit1"}
DocsReturned == mainpc \in {"watch", "watching", "wrapup", "join", "join_exit1"}

IsErrorLine(c) == c \in {ERROR_LINE, OCR_ERROR_TEXT}

\* D joined with a listed name
Joined(D, n) == IF D[Len(D)] = "/" THEN D \o n ELSE D \o <<"/">> \o n

-----------------------------------------------------------------------------
\* C4: in directory mode get_eligible_files returns exactly the listed
\* entries, joined with D and in listing order, whose lower-cased extension is
\* supported and whose marker D/{base}_{ext}.txt does not exist.
C4_DirectoryMode ==
    (mainpc = "returned" /\ args.input_dir # <<>>) =>
        LET D    == args.input_dir
            keep == SelectSeq(listing,
                        LAMBDA n : /\ n \in DOMAIN MarkerNameOf
                                   /\ ~OnDisk(Components(D) \o <<MarkerNameOf[n]>>))
        IN  eligible = [i \in DOMAIN keep |-> Joined(D, keep[i])]

\* C4 witness: a listing with an upper-case extension that is kept, a marked
\* file that is dropped and an unsupported entry that is dropped
C4_Witness ==
    /\ mainpc = "returned"
    /\ args.input_dir = <<"d", "/">>
    /\ Len(listing) = 3
    /\ listing[1] # N_a_TS
    /\ eligible = << <<"d", "/">> \o N_a_TS >>
    /\ OnDisk(<<D_d, N_b_pdf>>)
    /\ OnDisk(<<D_d, N_b_pdf_txt>>)

\* C5: in file-list mode get_eligible_files returns, in input order, exactly
\* the paths of L that exist, have a supported extension (case-insensitively)
\* and have no marker; a path absent from disk is never returned.
C5_FileListMode ==
    (mainpc = "returned" /\ args.input_dir = <<>>) =>
        /\ eligible = SelectSeq(args.files,
                          LAMBDA p : /\ OnDisk(Components(p))
                                     /\ Supported(p)
                                     /\ ~OnDisk(MarkerKey(p)))
        /\ \A i \in DOMAIN eligible : OnDisk(Components(eligible[i]))

\* C5 witness: a list of two paths, the first absent from disk and dropped,
\* the second (upper-case extension) present, unmarked and returned
C5_Witness ==
    /\ mainpc = "returned"
    /\ args.files = <<join(D_d, N_a_ts), join(D_d, N_a_TS)>>
    /\ ~OnDisk(<<D_d, N_a_ts>>)
    /\ eligible = <<join(D_d, N_a_TS)>>

\* C7: monitor_resources takes one sample at entry and one further sample per
\* wait that timed out; a wait that returns because the stop signal is set is
\* followed by no sample, so the samples number 1 + the timed-out waits.
C7_SampleCount ==
    /\ monpc \in {"check", "wait", "waiting", "stats", "done"} =>
            Len(timestamps) = 1 + mon.timeouts
    /\ monpc = "sample" => Len(timestamps) = mon.timeouts
    /\ monpc = "entry" => Len(timestamps) = 0 /\ mon.timeouts = 0
    /\ mon.samples = Len(timestamps)

\* C7 witness: the monitor has returned after a timed-out wait and a wait
\* that the stop signal ended, with two samples
C7_Witness ==
    /\ monpc = "done"
    /\ mon.timeouts = 1
    /\ mon.waits = 2
    /\ Len(timestamps) = 2

\* C8: the statistics are computed only after the monitor has observed the
\* stop signal (is_set or wait returned true), and no sample is taken after
\* the monitor has observed it.
C8_StatsAfterStop ==
    /\ monpc \in {"stats", "done"} => mon.observed /\ stop_evt
    /\ mon.stats > 0 => mon.statsObserved
    /\ ~mon.late
    /\ mon.observed => monpc \in {"stats", "done", "killed"}

\* C8 witness: the statistics were computed after the loop test saw the
\* signal, with a sample taken before that
C8_Witness ==
    /\ monpc = "done"
    /\ mon.stats = 1
    /\ mon.waits = mon.timeouts
    /\ mon.samples = 2

\* C9: after every call of sample_resources each enabled series is as long as
\* the timestamp series, whichever reads fail.
C9_SeriesAligned ==
    /\ flags.psutil_available => Len(cpu_usage_data) = Len(timestamps)
    /\ flags.gpu_available => Len(gpu_usage_data) = Len(timestamps)
    /\ flags.gpu_available => Len(gpu_power_data) = Len(timestamps)

\* C10: whenever main has started the monitor thread, main sets the stop
\* signal and joins the monitor (which has then logged its statistics) before
\* main terminates, on every exit path.
C10_MonitorJoined ==
    (mainpc = "exited" /\ monpc # "none") => (monpc = "done" /\ stop_evt /\ mon.stats = 1)

\* C2: a transcription/OCR error of one file leaves an ERROR line in that
\* file's dump, every file of the batch is still processed, every other file
\* gets its marker and a completed dump, and the pipeline returns: only an
\* interrupt, never such an error, ends main inside a pipeline.
C2_FaultIsolation ==
    /\ (invocations # <<>> /\ Last(invocations).result = "Exception") =>
            /\ Len(fs[DumpKey(Last(invocations).path)]) = 3
            /\ IsErrorLine(fs[DumpKey(Last(invocations).path)][2])
    /\ AvReturned =>
            /\ PathsOf(RunCalls(run, "transcribe")) = av_files
            /\ \A i \in DOMAIN av_files :
                /\ RunCalls(run, "transcribe")[i].result \in {"ok", "Exception"}
                /\ RunCalls(run, "transcribe")[i].result = "ok" =>
                        /\ OnDisk(MarkerKey(av_files[i]))
                        /\ fs[MarkerKey(av_files[i])] = <<TRANSCRIPT>>
                /\ OnDisk(DumpKey(av_files[i]))
                /\ Last(fs[DumpKey(av_files[i])]) = SUMMARY
    /\ DocsReturned =>
            /\ PathsOf(RunCalls(run, "ocr")) = doc_files
            /\ \A i \in DOMAIN doc_files :
                /\ OnDisk(MarkerKey(doc_files[i]))
                /\ OnDisk(DumpKey(doc_files[i]))
                /\ Last(fs[DumpKey(doc_files[i])]) = SUMMARY
    /\ (mainpc = "exited" /\ cur > 0) =>
            /\ Last(invocations).result = "KeyboardInterrupt"
            /\ Last(exitcode) = "130"

\* C2 witness: a batch of two audio/video files whose first transcription
\* raised and whose second succeeded; the pipeline has returned, the second
\* file has its marker and the first has none
C2_Witness ==
    /\ mainpc = "wrapup"
    /\ av_files = <<join(D_d, N_a_TS), join(D_d, N_e_rm)>>
    /\ RunCalls(run, "transcribe")[1].result = "Exception"
    /\ RunCalls(run, "transcribe")[2].result = "ok"
    /\ OnDisk(<<D_d, N_e_rm_txt>>)
    /\ ~OnDisk(<<D_d, N_a_ts_txt>>)

\* C3 as stated: after a failed transcription or OCR of a file its marker is
\* on disk.
C3_MarkerRegardless ==
    \A i \in DOMAIN invocations :
        invocations[i].result = "Exception" => OnDisk(MarkerKey(invocations[i].path))

\* C3 amended: a failed OCR still writes the marker (holding the error text),
\* so that document is skipped by every later scan; a failed transcription
\* writes no marker: an audio/video marker on disk comes from a successful
\* transcription, and a file whose transcription failed and that has no marker
\* is eligible again at the next scan.
C3_MarkerOnOcrFailureOnly ==
    \A i \in DOMAIN invocations :
        LET r == invocations[i] IN
        /\ (r.call = "ocr" /\ r.result = "Exception") =>
                /\ OnDisk(MarkerKey(r.path))
                /\ i = Len(invocations) => fs[MarkerKey(r.path)] = <<OCR_ERROR_TEXT>>
                /\ (r.run < run /\ Scanned) => r.path \notin Range(eligible)
        /\ (r.call = "transcribe" /\ OnDisk(MarkerKey(r.path))) =>
                \E j \in DOMAIN invocations :
                    /\ invocations[j].call = "transcribe"
                    /\ invocations[j].result = "ok"
                    /\ MarkerKey(invocations[j].path) = MarkerKey(r.path)
        /\ (r.call = "transcribe" /\ r.result = "Exception" /\ r.run < run /\ Scanned
                /\ ~OnDisk(MarkerKey(r.path))) => r.path \in Range(eligible)

\* C3 witness: the second run has scanned; in the first run the transcription
\* of a.ts and the OCR of b.pdf both failed; a.ts is eligible again, b.pdf is
\* marked and skipped
C3_Witness ==
    /\ run = 2
    /\ mainpc = "monitor"
    /\ Len(RunCalls(1, "transcribe")) = 1
    /\ RunCalls(1, "transcribe")[1].result = "Exception"
    /\ Len(RunCalls(1, "ocr")) = 1
    /\ RunCalls(1, "ocr")[1].result = "Exception"
    /\ eligible = <<join(D_d, N_a_TS)>>
    /\ OnDisk(<<D_d, N_b_pdf_txt>>)

NamedRight(r, f) ==
    /\ DumpKey(r.path) \in DOMAIN f
    /\ Components(txt_file_list(r.path)) = MarkerKey(r.path)
    /\ args.input_dir # <<>> =>
            Components(txt_file_dir(args.input_dir, NameOf(r.path))) = MarkerKey(r.path)
    /\ WroteMarker(r) => MarkerKey(r.path) \in DOMAIN f

\* no earlier call that wrote its marker is for a path in the eligible list
NoneEligibleAgain ==
    \A i \in DOMAIN invocations :
        (invocations[i].run < run /\ WroteMarker(invocations[i]))
            => invocations[i].path \notin Range(eligible)

\* C6: the marker that a pipeline writes for an input is the file
\* {dir}/{base}_{extNoDot}.txt (extension lower-cased) that get_eligible_files
\* tests in both modes, the dump is {dir}/{base}_{extNoDot}_dump.txt, no step
\* removes a file, and a scan never returns an input whose marker a pipeline
\* wrote in an earlier run.
C6_MarkerNaming ==
    [][ /\ \A k \in DOMAIN fs : k \in DOMAIN fs'
        /\ invocations' # invocations => NamedRight(Last(invocations'), fs')
        /\ (mainpc = "start" /\ mainpc' # "start") => NoneEligibleAgain'
      ]_vars

\* C6 witness: in the first run a.TS was transcribed and its marker a_ts.txt
\* written; the second run has scanned the directory in which a.TS still is
\* and found nothing eligible
C6_Witness ==
    /\ run = 2
    /\ Scanned
    /\ Len(invocations) = 1
    /\ invocations[1].path = join(D_d, N_a_TS)
    /\ invocations[1].result = "ok"
    /\ OnDisk(<<D_d, N_a_TS>>)
    /\ OnDisk(<<D_d, N_a_ts_txt>>)
    /\ eligible = <<>>

\* the file a transcribe/OCR call of main's batch is in progress for
MainBusy ==
    IF mainpc = "av_loop" THEN {av_files[cur]}
    ELSE IF mainpc = "doc_loop" THEN {doc_files[cur]}
    ELSE {}

\* the file a transcribe/OCR call of the observer's callback is in progress for
ObsBusy == IF obs.pc \in {"av", "doc"} THEN {obs.path} ELSE {}

\* C11: no two transcribe/OCR invocations are in progress for the same file
\* at any time: the batch of main is over before the observer is started,
\* and the observer's thread handles one notification at a time.
C11_NoConcurrentProcessing ==
    /\ MainBusy \cap ObsBusy = {}
    /\ mainpc \in {"start", "monitor", "load", "av_loop", "doc_loop", "watch"}
           => obs.pc = "none"

\* C11 witness: the batch transcribed d/a.TS and failed, so no marker was
\* written; a notification for the same file has made the observer's
\* callback start the transcription of it again while main sleeps
C11_Witness ==
    /\ obs.pc = "av"
    /\ obs.path = join(D_d, N_a_TS)
    /\ Len(invocations) = 1
    /\ invocations[1].path = join(D_d, N_a_TS)
    /\ invocations[1].result = "Exception"
    /\ mainpc = "watching"

\* C12 as stated: every notification kind for a file runs
\* _wait_until_complete and only then _process
C12_WaitThenProcess ==
    /\ obs.pc = "process" => obs.steps = <<"wait">>
    /\ obs.pc \in {"load", "av", "doc"} => obs.steps = <<"wait", "process">>
    /\ obs.pc \in {"wait", "process", "load", "av", "doc"} => ~obs.is_directory

\* the calls a handler method has made when _process is entered
WaitedFor(kind) == IF kind = "closed" THEN <<>> ELSE <<"wait">>

\* C12: a created, modified or moved notification for a file runs
\* _wait_until_complete on the path (the destination path for moved) and only
\* then _process; a closed notification runs _process at once, without the
\* wait; a notification for a directory runs neither.
C12_Routing ==
    /\ obs.pc = "wait" => (obs.kind # "closed" /\ obs.steps = <<>>)
    /\ obs.pc = "process" => obs.steps = WaitedFor(obs.kind)
    /\ obs.pc \in {"load", "av", "doc"} => obs.steps = Append(WaitedFor(obs.kind), "process")
    /\ obs.pc \in {"wait", "process", "load", "av", "doc"} => ~obs.is_directory
    /\ obs.pc # "none" => obs.kind \in EventKinds \cup {""}

\* C12 witness: a moved notification whose destination is d/b.pdf has gone
\* through the wait and _process, and the OCR of d/b.pdf is about to run
C12_Witness ==
    /\ obs.pc = "doc"
    /\ obs.kind = "moved"
    /\ obs.path = join(D_d, N_b_pdf)
    /\ obs.steps = <<"wait", "process">>

\* C13: a notification of any kind for a path whose marker exists causes no
\* transcribe/OCR invocation and no model load, however many of them come.
C13_DuplicatesAbsorbed ==
    obs.pc \in {"load", "av", "doc"} =>
        (~obs.marked /\ ~OnDisk(MarkerKey(obs.path)))

\* C13 witness: d/b.pdf went through OCR and has its marker; the second
\* notification for it is in _process
C13_Witness ==
    /\ obs.pc = "process"
    /\ obs.delivered = 2
    /\ obs.marked
    /\ obs.path = join(D_d, N_b_pdf)
    /\ OnDisk(<<D_d, N_b_pdf_txt>>)
    /\ \E i \in DOMAIN invocations : invocations[i].path = obs.path

\* the category of every path of CategorizePaths, written out
CategoryOf ==
    (N_a_ts :> "av") @@ (N_a_TS :> "av") @@ (N_e_rm :> "av")
    @@ (N_b_pdf :> "doc") @@ (N_p_JPG :> "doc") @@ (join(D_d, N_b_pdf) :> "doc")
    @@ (N_c_txt :> "none") @@ (N_dot_ts :> "none")

\* the positions of list s that hold a path of category c, in order
PositionsOf(s, c) == SelectSeq([i \in DOMAIN s |-> i], LAMBDA i : CategoryOf[s[i]] = c)

\* C14: categorize_files(files) puts every input path (every position of the
\* list) into the audio/video list or the document/image list according to
\* its extension, or into neither; each list keeps the order of the input;
\* categorize_files([]) = ([], []).
C14_Partition ==
    mainpc = "returned" =>
        /\ av_files = [i \in DOMAIN PositionsOf(args.files, "av") |->
                          args.files[PositionsOf(args.files, "av")[i]]]
        /\ doc_files = [i \in DOMAIN PositionsOf(args.files, "doc") |->
                           args.files[PositionsOf(args.files, "doc")[i]]]
        /\ Len(av_files) + Len(doc_files) + Len(PositionsOf(args.files, "none"))
               = Len(args.files)
        /\ \A p \in Range(av_files) : p \notin Range(doc_files)
        /\ args.files = <<>> => (av_files = <<>> /\ doc_files = <<>>)

\* C14 witness: categorize_files(["d/b.pdf", "a.TS"]) has returned
\* (["a.TS"], ["d/b.pdf"])
C14_Witness ==
    /\ mainpc = "returned"
    /\ args.files = <<join(D_d, N_b_pdf), N_a_TS>>
    /\ av_files = <<N_a_TS>>
    /\ doc_files = <<join(D_d, N_b_pdf)>>

\* twice the trapezoidal sum over the indices S: the terms
\* (p[i] + p[i-1]) * (t[i] - t[i-1])
RECURSIVE TrapezoidTerms2(_)
TrapezoidTerms2(S) ==
    IF S = {} THEN 0
    ELSE LET i == CHOOSE j \in S : TRUE
         IN  (gpu_power_data[i] + gpu_power_data[i-1]) * (timestamps[i] - timestamps[i-1])
                 + TrapezoidTerms2(S \ {i})

TrapezoidSum2 == TrapezoidTerms2(2..Len(gpu_power_data))

\* C15: with n >= 2 power samples and n timestamps the energy the monitor
\* reports is (sum of (p[i]+p[i-1])/2 * (t[i]-t[i-1])) / 3600 watt-hours
\* (200/3600 for [10,20,30] at [0,5,10]); with fewer than 2 power samples or
\* series of unequal length no energy is reported.
C15_EnergyIntegration ==
    monpc = "done" =>
        /\ (Len(gpu_power_data) >= 2 /\ Len(timestamps) = Len(gpu_power_data)) =>
               /\ mon.energy_logged
               /\ mon.energy_wh[1] * (2 * 3600) = TrapezoidSum2 * mon.energy_wh[2]
        /\ (gpu_power_data = <<10, 20, 30>> /\ timestamps = <<0, 5, 10>>) =>
               mon.energy_wh[1] * 3600 = 200 * mon.energy_wh[2]
        /\ (Len(gpu_power_data) < 2 \/ Len(timestamps) # Len(gpu_power_data)) =>
               ~mon.energy_logged

\* C15 witness: the statistics ran over power [10,20,30] at [0,5,10] and
\* reported 400/7200 Wh
C15_Witness ==
    /\ monpc = "done"
    /\ gpu_power_data = <<10, 20, 30>>
    /\ timestamps = <<0, 5, 10>>
    /\ mon.energy_logged
    /\ mon.energy_wh = <<400, 7200>>

\* C16: unless --ignore-gpu-threshold is given, a GPU utilisation reading at
\* or above --gpu-threshold means that no model is loaded and no file is
\* transcribed.
C16_ThresholdGate ==
    (~args.ignore_gpu_threshold /\ gate_util >= args.gpu_threshold) =>
        (model = "None" /\ RunCalls(run, "transcribe") = <<>>)

\* C17: the model is moved to "cuda" and transcribe is called with fp16 only
\* when the requested device is "cuda" and cuda_available is true; otherwise
\* the model is on "cpu" and fp16 is false, in main (which turns a cuda
\* request without CUDA into cpu before it loads) and in direct calls.
C17_DeviceSelection ==
    /\ model # "None" =>
           model = (IF args.device = "cuda" /\ flags.cuda_available THEN "cuda" ELSE "cpu")
    /\ \A i \in DOMAIN invocations :
           invocations[i].call = "transcribe" =>
               /\ invocations[i].fp16 = (args.device = "cuda" /\ flags.cuda_available)
               /\ invocations[i].on = (IF invocations[i].fp16 THEN "cuda" ELSE "cpu")
    /\ mainpc \in {"av_loop", "doc_loop", "wrapup", "join"} =>
           (device = "cuda" => flags.cuda_available)

\* C17 witness: cuda was requested on a host without CUDA; the model went to
\* the cpu and d/a.TS was transcribed with fp16 off by main
C17_Witness ==
    /\ args.device = "cuda"
    /\ ~flags.cuda_available
    /\ args.input_dir = D_d
    /\ model = "cpu"
    /\ Len(invocations) = 1
    /\ invocations[1].call = "transcribe"
    /\ ~invocations[1].fp16

\* the load or initialisation of a subsystem failed
Failed(o) == o \in {"ImportError", "FileNotFoundError", "Exception", "nonzero"}

\* C18: initialize_system_checks never raises, and a failure of the load or
\* initialisation of a subsystem (missing library, missing binary, runtime
\* exception) leaves that subsystem's flag unavailable.
C18_NeverRaises ==
    /\ mainpc # "raised"
    /\ mainpc = "checked" =>
           /\ Failed(host.torch) => ~flags.cuda_available
           /\ Failed(host.ffprobe) => ~flags.ffprobe_available
           /\ Failed(host.psutil) => ~flags.psutil_available
           /\ Failed(host.pynvml) => (~flags.pynvml_available /\ ~flags.gpu_available)
           /\ Failed(host.easyocr) => ~flags.easyocr_available

\* C19 as stated: process_document_with_ocr never propagates an exception
C19_NeverPropagates ==
    /\ mainpc # "raised"
    /\ mainpc = "returned" =>
           /\ invocations[1].result # "ok" => invocations[1].returned = OCR_ERROR_TEXT
           /\ ~flags.easyocr_available =>
                  (invocations[1].returned = "" /\ invocations[1].engine = <<>>)

\* C19: an Exception raised while the reader is constructed, the document is
\* opened or rendered, or OCR runs is turned into the returned text "ERROR
\* during OCR processing: ..."; a KeyboardInterrupt, which is no Exception,
\* propagates to the caller; with the OCR engine unavailable the function
\* returns the empty string without a call into the engine.
C19_ExceptionsReturned ==
    /\ mainpc = "raised" =>
           /\ flags.easyocr_available
           /\ invocations[1].result = "KeyboardInterrupt"
           /\ \E c \in Range(invocations[1].engine) : host[c] = "KeyboardInterrupt"
    /\ mainpc = "returned" =>
           /\ invocations[1].result \in {"ok", "Exception"}
           /\ (flags.easyocr_available /\ invocations[1].result = "Exception") =>
                  /\ invocations[1].returned = OCR_ERROR_TEXT
                  /\ host[Last(invocations[1].engine)] = "Exception"
           /\ (flags.easyocr_available /\ invocations[1].result = "ok") =>
                  /\ invocations[1].returned = OCR_TEXT
                  /\ \A c \in Range(invocations[1].engine) : host[c] = "ok"
           /\ ~flags.easyocr_available =>
                  (invocations[1].returned = "" /\ invocations[1].engine = <<>>)
    /\ (mainpc # "call" /\ flags.easyocr_available) => invocations[1].engine[1] = "Reader"

\* C19 witness: for b.pdf the reader was constructed and fitz.open raised an
\* Exception; the function returned the error text
C19_Witness ==
    /\ mainpc = "returned"
    /\ invocations[1].path = N_b_pdf
    /\ invocations[1].engine = <<"Reader", "open">>
    /\ host["open"] = "Exception"
    /\ invocations[1].returned = OCR_ERROR_TEXT

\* C20: when get_eligible_files raises in the scan of main (the directory
\* cannot be listed), main exits with a non-zero status and has not started
\* the monitor thread, loaded the model or called a pipeline.
C20_DiscoveryFailure ==
    (args.input_dir = <<"x">> /\ mainpc # "start") =>
        /\ mainpc = "exited"
        /\ Len(exitcode) = run
        /\ exitcode[run] \notin {"0"}
        /\ monpc = "none"
        /\ timestamps = <<>>
        /\ model = "None"
        /\ invocations = <<>>
        /\ DOMAIN fs = {k \in DOMAIN fs : k[2] \in SourceNames}

\* C20 witness: main --input-dir x, where x cannot be listed, has exited
\* with status 1
C20_Witness ==
    /\ args.input_dir = <<"x">>
    /\ mainpc = "exited"
    /\ exitcode = <<"1">>
    /\ monpc = "none"

\* the path ends in .txt as it is spelled
IsTxt(p) == Len(p) >= 4 /\ SubSeq(p, Len(p) - 3, Len(p)) = <<".", "t", "x", "t">>

\* the warnings logged that name path p
WarningsFor(p) == SelectSeq(logged, LAMBDA l : l.level = "warning" /\ l.path = p)

\* C21 as stated: in file-list mode every path with extension .txt, on disk
\* or not, verbose or not, is absent from the output and no warning is logged
\* for it.
C21_TxtSilent ==
    (mainpc = "returned" /\ args.input_dir = <<>>) =>
        \A i \in DOMAIN args.files :
            IsTxt(args.files[i]) =>
                /\ ~InList(args.files[i], eligible)
                /\ WarningsFor(args.files[i]) = <<>>

\* C21: in file-list mode every path with extension .txt that exists on disk
\* is absent from the output and no warning is logged for it, verbose or
\* not.
C21_ExistingTxtSilent ==
    (mainpc = "returned" /\ args.input_dir = <<>>) =>
        \A i \in DOMAIN args.files :
            (IsTxt(args.files[i]) /\ OnDisk(Components(args.files[i]))) =>
                /\ ~InList(args.files[i], eligible)
                /\ WarningsFor(args.files[i]) = <<>>

\* C21 witness: a verbose call over an existing .txt path and an existing
\* unsupported path; only the second is reported
C21_Witness ==
    /\ mainpc = "returned"
    /\ args.verbose
    /\ args.files = <<join(D_d, N_c_txt), join(D_d, N_n_xy)>>
    /\ OnDisk(<<D_d, N_c_txt>>)
    /\ logged = <<Line("warning", "Unsupported file type", join(D_d, N_n_xy))>>
    /\ eligible = <<>>

\* C22 as stated: in file-list mode every path with an unsupported extension
\* other than .txt is absent from the output, and a warning is logged for it
\* if and only if verbose is true.
C22_WarnsIffVerbose ==
    (mainpc = "returned" /\ args.input_dir = <<>>) =>
        \A i \in DOMAIN args.files :
            (~Supported(args.files[i]) /\ ~IsTxt(args.files[i])) =>
                /\ ~InList(args.files[i], eligible)
                /\ (WarningsFor(args.files[i]) # <<>>) <=> args.verbose

\* C22: in file-list mode every path with an unsupported extension other
\* than .txt that exists on disk is absent from the output, and a warning is
\* logged for it if and only if verbose is true.
C22_ExistingWarnsIffVerbose ==
    (mainpc = "returned" /\ args.input_dir = <<>>) =>
        \A i \in DOMAIN args.files :
            (/\ ~Supported(args.files[i])
             /\ ~IsTxt(args.files[i])
             /\ OnDisk(Components(args.files[i]))) =>
                /\ ~InList(args.files[i], eligible)
                /\ (WarningsFor(args.files[i]) # <<>>) <=> args.verbose

\* C22 witness: a call without verbose over an existing unsupported path
\* and an existing input: nothing is logged, the input is returned
C22_Witness ==
    /\ mainpc = "returned"
    /\ ~args.verbose
    /\ args.files = <<join(D_d, N_n_xy), join(D_d, N_a_ts)>>
    /\ OnDisk(<<D_d, N_n_xy>>)
    /\ logged = <<>>
    /\ eligible = <<join(D_d, N_a_ts)>>

\* C23: process_audio_video_files([]) and process_document_files([]) log one
\* info line and return: the call leaves every file as it was (no marker or
\* dump created or modified) and makes no transcribe or OCR call.
C23_EmptyListNoOp ==
    [][(mainpc \in {"enter_av", "enter_doc"} /\ args.files = <<>>) =>
           /\ mainpc' = "returned"
           /\ fs' = fs
           /\ invocations' = invocations
           /\ Len(logged') = Len(logged) + 1
           /\ logged'[Len(logged')].level = "info"]_vars

\* C23 witness: process_document_files([]) has returned over a directory
\* that holds an earlier marker and dump, with its info line logged and no
\* call made
C23_Witness ==
    /\ mainpc = "returned"
    /\ args.files = <<>>
    /\ logged = <<Line("info", "No document/image files to process.", <<>>)>>
    /\ invocations = <<>>
    /\ fs = FilesWith({<<D_d, N_b_pdf>>, <<D_d, N_b_pdf_txt>>, <<D_d, N_b_pdf_dump>>}, "old")

\* which known model each reported GPU name counts as, written out
KnownModel ==
    (<<"N","V","I","D","I","A"," ","G","e","F","o","r","c","e"," ","R","T","X"," ","4","0","7","0">> :> "RTX 4070")
    @@ (<<"N","V","I","D","I","A"," ","G","e","F","o","r","c","e"," ","R","T","X"," ","4","0","6","0"," ","T","i">> :> "RTX 4060 Ti")
    @@ (<<"N","V","I","D","I","A"," ","G","e","F","o","r","c","e"," ","R","T","X"," ","4","0","7","0"," ","T","i">> :> "RTX 4070")
    @@ (<<"N","V","I","D","I","A"," ","G","e","F","o","r","c","e"," ","R","T","X"," ","4","0","6","0">> :> "none")
    @@ (<<"N","V","I","D","I","A"," ","U","n","k","n","o","w","n"," ","M","o","d","e","l">> :> "none")

\* the call of estimate_processing_time has returned
Estimated == mainpc = "returned" /\ "duration" \in DOMAIN args

\* C24: estimate_processing_time returns exactly 0.0, for every duration,
\* when gpu_available or pynvml_available is false, when the GPU name
\* contains neither known model, and when the name query raises.
C24_ZeroEstimate ==
    Estimated =>
        ((\/ ~flags.gpu_available
          \/ ~flags.pynvml_available
          \/ host.nvmlDeviceGetName = "raises"
          \/ KnownModel[host.name] = "none") => retval = <<0>>)

\* C24 witness: GPU and NVML available, the name of an unknown model, a
\* duration of 300 s and the estimate 0.0
C24_Witness ==
    /\ Estimated
    /\ flags.gpu_available /\ flags.pynvml_available
    /\ host.nvmlDeviceGetName = "returns"
    /\ host.name = <<"N","V","I","D","I","A"," ","U","n","k","n","o","w","n"," ","M","o","d","e","l">>
    /\ args.duration = 300
    /\ retval = <<0>>

\* C25: with GPU and NVML available, estimate_processing_time(d) is
\* 0.089*d + 15 for a name containing "RTX 4070" and 0.134*d + 10.8 for a
\* name containing "RTX 4060 Ti" (in units of 0.0001: 890*d + 150000 and
\* 1340*d + 108000; 300 gives 41.7 and 51.0).
C25_TestedCoefficients ==
    (/\ Estimated
     /\ flags.gpu_available /\ flags.pynvml_available
     /\ host.nvmlDeviceGetName = "returns") =>
        /\ KnownModel[host.name] = "RTX 4070" => retval = <<890 * args.duration + 150000>>
        /\ KnownModel[host.name] = "RTX 4060 Ti" => retval = <<1340 * args.duration + 108000>>

\* the units of the display, written out: from lo (inclusive) to hi
\* (exclusive, 0 for none), in hundredths of a second, and the number of
\* hundredths of a second in one unit
DisplayUnits ==
    {[unit |-> "seconds", lo |-> 0, hi |-> 6000, per |-> 100],
     [unit |-> "minutes", lo |-> 6000, hi |-> 360000, per |-> 6000],
     [unit |-> "hours", lo |-> 360000, hi |-> 8640000, per |-> 360000],
     [unit |-> "days", lo |-> 8640000, hi |-> 0, per |-> 8640000]}

\* C26: format_time_for_display picks the unit by the thresholds 60, 3600
\* and 86400 seconds (each boundary belongs to the larger unit), prints the
\* time in that unit with two decimals, and for minutes, hours and days
\* appends the seconds in parentheses.
C26_UnitThresholds ==
    (mainpc = "returned" /\ "seconds" \in DOMAIN args) =>
        \E u \in DisplayUnits :
            /\ u.lo <= args.seconds
            /\ u.hi = 0 \/ args.seconds < u.hi
            /\ retval[1].unit = u.unit
            /\ 2 * (100 * args.seconds - retval[1].number * u.per) <= u.per
            /\ 2 * (retval[1].number * u.per - 100 * args.seconds) <= u.per
            /\ retval[1].seconds = IF u.unit = "seconds" THEN <<>> ELSE <<args.seconds>>

\* C26 witness: 3725 seconds displayed as "1.03 hours (3725.00 seconds)"
C26_Witness ==
    /\ mainpc = "returned"
    /\ "seconds" \in DOMAIN args
    /\ args.seconds = 372500
    /\ retval = <<[number |-> 103, unit |-> "hours", seconds |-> <<372500>>]>>

\* C27: once the stop signal is set the monitor eventually leaves its loop,
\* computes the statistics and returns, so a join on its thread returns; the
\* statistics are computed once, and after the return there is no further
\* sample, wait or statistics.
C27_MonitorTerminates ==
    /\ stop_evt ~> (monpc = "done" /\ mon.stats = 1)
    /\ [](mon.stats <= 1)
    /\ [][monpc = "done" =>
             /\ monpc' = "done"
             /\ timestamps' = timestamps
             /\ mon' = mon]_vars

\* C27 witness: the signal was set during the first wait; the monitor has
\* returned with its statistics computed once
C27_Witness ==
    /\ stop_evt
    /\ monpc = "done"
    /\ mon.stats = 1
    /\ mon.waits = 1
    /\ mon.timeouts = 0

\* the transcribe calls made so far, in run k, for the input whose marker is m
Transcribed(k, m) ==
    SelectSeq(RunCalls(k, "transcribe"), LAMBDA r : MarkerKey(r.path) = m)

\* C28: the marker of an audio/video input is on disk only after a transcribe
\* call for that input has returned successfully; an input whose processing
\* stopped earlier in a run (transcribe raised, or main died with the dump
\* header written) has no marker and is eligible again at the next scan.
C28_Resumable ==
    /\ \A n \in {N_a_TS, N_e_rm} :
          OnDisk(<<D_d, MarkerNameOf[n]>>) =>
              \E i \in DOMAIN invocations :
                  /\ invocations[i].call = "transcribe"
                  /\ invocations[i].result = "ok"
                  /\ MarkerKey(invocations[i].path) = <<D_d, MarkerNameOf[n]>>
    /\ (run = 2 /\ Scanned) =>
          \A i \in DOMAIN RunCalls(1, "transcribe") :
              (\A j \in DOMAIN Transcribed(1, MarkerKey(RunCalls(1, "transcribe")[i].path)) :
                  Transcribed(1, MarkerKey(RunCalls(1, "transcribe")[i].path))[j].result # "ok")
              => InList(RunCalls(1, "transcribe")[i].path, eligible)

\* C28 witness: the first run died in transcribe of d/a.TS with the dump
\* header written; the second run has scanned and found the file eligible
C28_Witness ==
    /\ run = 2
    /\ Scanned
    /\ exitcode = <<"130">>
    /\ PathsOf(RunCalls(1, "transcribe")) = <<join(D_d, N_a_TS)>>
    /\ RunCalls(1, "transcribe")[1].result = "KeyboardInterrupt"
    /\ OnDisk(<<D_d, N_a_ts_dump>>)
    /\ fs[<<D_d, N_a_ts_dump>>] = <<HEADER>>
    /\ ~OnDisk(<<D_d, N_a_ts_txt>>)
    /\ InList(join(D_d, N_a_TS), eligible)

\* C29 as stated: after the stop signal is set the monitor takes at most one
\* further sample before the statistics and never starts a wait.
C29_NoWaitAfterStop ==
    /\ mon.samples_after_set <= 1
    /\ mon.waits_after_set = 0

\* C29: after the stop signal is set the monitor takes at most one further
\* sample before it computes the statistics, and it calls wait at most once
\* more (when the signal is set between the loop test and the call); that
\* wait returns at once and is followed by the statistics, not by a sample.
C29_StopSampleRace ==
    /\ mon.samples_after_set <= 1
    /\ mon.waits_after_set <= 1
    /\ mon.waits_after_set = 1 => monpc \in {"waiting", "stats", "done", "killed"}
    /\ (mon.waits_after_set = 1 /\ monpc # "waiting") => mon.waits > mon.timeouts

\* C29 witness: the signal was set after a timed-out wait, before the sample
\* it led to; the monitor took that sample and went to the statistics
\* without another wait
C29_Witness ==
    /\ monpc = "done"
    /\ mon.samples_after_set = 1
    /\ mon.waits_after_set = 0
    /\ mon.timeouts = 1
    /\ mon.samples = 2

\* C30 (watch-mode completeness): with --watch, an input file with a
\* supported extension and no marker that is in the input directory, at the
\* initial scan or from any later moment on, is eventually handed to its
\* pipeline, unless watch mode has ended or the observer's thread has died
WatchOver ==
    \/ mainpc \notin {"start", "monitor", "load", "av_loop", "doc_loop", "watch", "watching"}
    \/ obs.pc = "dead"
Handed(p) == \E i \in DOMAIN invocations : invocations[i].path = p
C30_WatchComplete ==
    \A n \in WatchNames :
        (OnDisk(<<D_d, n>>) /\ ~OnDisk(<<D_d, MarkerNameOf[n]>>))
            ~> (Handed(join(D_d, n)) \/ WatchOver)

\* the latest two size readings of the wait were equal and non-zero
ObservedStable == obs.w.read >= 2 /\ obs.w.size = obs.w.prev /\ obs.w.size > 0

\* _wait_until_complete has returned, or was not called, and _process runs
\* or has run
InProcess == obs.pc \in {"process", "load", "av", "doc"}

\* C31 as stated: _process runs for a notified path only after two
\* consecutive size readings that are equal and non-zero
C31_StableBeforeProcess == InProcess => ObservedStable

\* C31: for a created, modified or moved notification _process runs only
\* after two consecutive size readings that are equal and non-zero, or after
\* the timeout of 30 s has passed; _wait_until_complete returns in no other
\* case. A closed notification is processed without any reading.
C31_StableOrTimeout ==
    /\ (InProcess /\ obs.kind # "closed") => (ObservedStable \/ now >= obs.w.deadline)
    /\ (InProcess /\ obs.kind # "closed") => obs.steps[1] = "wait"
    /\ (InProcess /\ obs.kind = "closed") => obs.w = NoWait
    /\ (obs.w.read >= 1 /\ obs.w.size <= 0) => ~ObservedStable

\* C31 witness: the wait has returned on two equal non-zero readings of a
\* file that was empty at the first reading, before its deadline
C31_Witness ==
    /\ obs.pc = "process"
    /\ obs.kind = "created"
    /\ ObservedStable
    /\ obs.w.read >= 3
    /\ now < obs.w.deadline

\* the path of the file with key k of the watched directory
PathOf(k) == join(args.input_dir, k[2])

\* the files a pipeline wrote: those on disk whose extension is .txt
Artifacts == {k \in DOMAIN fs : Len(k) = 2 /\ IsTxt(PathOf(k))}

\* the observer's thread has a notification in hand or in its queue
Reacting == obs.queue # {} \/ obs.pc \in {"called", "wait", "process", "load", "av", "doc"}

\* C32: in watch mode no marker or dump on disk is eligible, no transcribe or
\* OCR call is ever made for one, the only files ever on disk are the inputs
\* and their own markers and dumps, handling the notification for a marker
\* or dump changes no file, makes no call and queues no notification, and
\* the observer comes to rest with an empty queue while watch mode lasts.
C32_NoFeedback ==
    /\ [](\A k \in Artifacts : get_eligible_files(<<>>, <<PathOf(k)>>, <<>>) = <<>>)
    /\ [](\A i \in DOMAIN invocations : ~IsTxt(invocations[i].path))
    /\ [](DOMAIN fs \subseteq
            UNION {{<<D_d, n>>, <<D_d, MarkerNameOf[n]>>, <<D_d, DumpNameOf[n]>>} :
                      n \in WatchNames})
    /\ [][(IsTxt(obs.path) /\ obs'.pc # obs.pc)
            => /\ fs' = fs
               /\ invocations' = invocations
               /\ obs'.queue = obs.queue
               /\ obs'.pc \in {"wait", "process", "idle", "stopped"}]_vars
    /\ Reacting ~> ((~Reacting /\ obs.pc = "idle") \/ WatchOver)

\* C32 witness: d/a.TS was transcribed in a watch reaction, and the
\* notification for its marker d/a_ts.txt is now in _process
C32_Witness ==
    /\ obs.pc = "process"
    /\ obs.path = join(D_d, N_a_ts_txt)
    /\ OnDisk(<<D_d, N_a_ts_txt>>)
    /\ mainpc = "watching"
    /\ \E i \in DOMAIN invocations : invocations[i].path = join(D_d, N_a_TS)

\* s is the beginning of t
IsPrefix(s, t) == Len(s) <= Len(t) /\ SubSeq(t, 1, Len(s)) = s

\* the eligible paths of one category, in the order of the eligible list
EligibleAv == SelectSeq(eligible, LAMBDA p : CategoryOf[NameOf(p)] = "av")
EligibleDocs == SelectSeq(eligible, LAMBDA p : CategoryOf[NameOf(p)] = "doc")

\* the dump of path p holds header, body and footer
DumpComplete(p) ==
    /\ OnDisk(DumpKey(p))
    /\ Len(fs[DumpKey(p)]) = 3
    /\ fs[DumpKey(p)][1] = HEADER
    /\ fs[DumpKey(p)][3] = SUMMARY

\* C33: in one run of main no transcribe call follows an OCR call, the
\* transcribe calls go through the audio/video files of the eligible list in
\* its order and the OCR calls through its documents in its order, one file
\* at a time, no OCR call is made before every audio/video file has had its
\* call, and when the call for the next file is made the dump of the file
\* before it holds header, body and footer.
C33_Sequential ==
    /\ [](\A i, j \in DOMAIN invocations :
            (i < j /\ invocations[i].run = invocations[j].run
                   /\ invocations[i].call = "ocr") => invocations[j].call = "ocr")
    /\ [](Scanned => /\ IsPrefix(PathsOf(RunCalls(run, "transcribe")), EligibleAv)
                     /\ IsPrefix(PathsOf(RunCalls(run, "ocr")), EligibleDocs)
                     /\ (RunCalls(run, "ocr") # <<>>
                            => PathsOf(RunCalls(run, "transcribe")) = EligibleAv))
    /\ [][(Len(invocations') > Len(invocations) /\ invocations # <<>>
              /\ Last(invocations).run = run)
            => DumpComplete(Last(invocations).path)]_vars

\* C33 witness: the eligible list of the first run has the document d/b.pdf
\* before the audio/video file d/a.TS; d/a.TS was transcribed first, then
\* d/b.pdf was read, and both dumps are complete
C33_Witness ==
    /\ run = 1
    /\ eligible = <<join(D_d, N_b_pdf), join(D_d, N_a_TS)>>
    /\ Len(invocations) = 2
    /\ invocations[1].call = "transcribe"
    /\ invocations[2].call = "ocr"
    /\ DumpComplete(invocations[1].path)
    /\ DumpComplete(invocations[2].path)

\* the transcribe calls of the process so far
Transcriptions == SelectSeq(invocations, LAMBDA r : r.call = "transcribe")

\* C34: the model is loaded only from the state "no model" and only by main
\* with a non-empty audio/video list or by a watch reaction to an eligible
\* audio/video file; a loaded model is never replaced, it exists only if a
\* transcription was made or is about to be made, starting the watch loads
\* nothing, and every transcribe call of the process is made on the one
\* loaded model.
C34_LazySingleLoad ==
    /\ [](mainpc = "load" => (model = "None" /\ av_files # <<>>))
    /\ [](obs.pc = "load"
            => /\ model = "None"
               /\ CategoryOf[NameOf(obs.path)] = "av"
               /\ OnDisk(Components(obs.path))
               /\ ~marker_exists(obs.path))
    /\ [][((mainpc = "load" /\ mainpc' = "av_loop") \/ (obs.pc = "load" /\ obs'.pc = "av"))
            => (model = "None" /\ model' # "None")]_vars
    /\ [][model' # model
            => (model = "None" /\ (mainpc = "load" \/ obs.pc = "load"))]_vars
    /\ [][(mainpc \in {"watch", "watching"} /\ obs.pc # "load") => (model' = model)]_vars
    /\ [](model # "None"
            => (Transcriptions # <<>> \/ mainpc = "av_loop" \/ obs.pc = "av"))
    /\ [](\A i \in DOMAIN Transcriptions :
            Transcriptions[i].on = model /\ model # "None")

\* C34 witness: the transcription of d/a.TS failed in the initial batch, a
\* watch reaction has transcribed it again, on the model the batch loaded
C34_Witness ==
    /\ mainpc = "watching"
    /\ Len(Transcriptions) = 2
    /\ Transcriptions[1].result = "Exception"
    /\ Transcriptions[2].on = Transcriptions[1].on
    /\ model # "None"

\* the pass of either pipeline is at the given position
InPass(step) == mainpc \in {PassPc.av[step], PassPc.doc[step]}

\* the dump and the marker of the file the pass is at
CurDump == DumpKey(args.files[cur])
CurMarker == MarkerKey(args.files[cur])

\* the marker keys whose file the step creates or changes
MarkersWritten(f, g) ==
    {k \in {MarkerKey(q) : q \in DOMAIN KeysOf} :
        k \in DOMAIN g /\ (k \notin DOMAIN f \/ f[k] # g[k])}

\* C35: in a pass of either pipeline the dump holds the header alone, any
\* earlier dump being gone, from the header write until the call has ended;
\* the body (the text, or the ERROR line when the transcription raised) is
\* the second record; a marker is written only when the dump already holds
\* header and text; the footer is appended as the third record after the
\* text as after the ERROR line; and when the pipeline returns, the dump of
\* every file of the list holds exactly these three records.
C35_DumpOrder ==
    /\ []((InPass("call") \/ InPass("body") \/ InPass("error")) => fs[CurDump] = <<HEADER>>)
    /\ [](InPass("body") => Last(invocations).result \in {"ok", "unavailable", "Exception"})
    /\ [](InPass("error") => Last(invocations).result = "Exception")
    /\ [](InPass("marker") => fs[CurDump] = <<HEADER, retval[1]>>)
    /\ [](InPass("footer")
            => /\ Len(fs[CurDump]) = 2
               /\ fs[CurDump][1] = HEADER
               /\ IF Last(invocations).call = "transcribe"
                     /\ Last(invocations).result = "Exception"
                  THEN fs[CurDump][2] = ERROR_LINE
                  ELSE fs[CurDump][2] = fs[CurMarker][1])
    /\ [][InPass("footer") => fs'[CurDump] = Append(fs[CurDump], SUMMARY)]_vars
    /\ [][MarkersWritten(fs, fs') # {}
            => /\ InPass("marker")
               /\ MarkersWritten(fs, fs') = {CurMarker}
               /\ fs[CurDump] = <<HEADER, retval[1]>>
               /\ fs'[CurMarker] = <<retval[1]>>]_vars
    /\ [](mainpc = "returned"
            => \A i \in DOMAIN args.files : DumpComplete(args.files[i]))

\* C35 witness: the transcription of d/a.TS raised and that of d/e.rm
\* returned; the pipeline has returned with both dumps complete, one with
\* the ERROR line and no marker beside it
C35_Witness ==
    /\ mainpc = "returned"
    /\ args.files = <<join(D_d, N_a_TS), join(D_d, N_e_rm)>>
    /\ invocations[1].result = "Exception"
    /\ invocations[2].result = "ok"
    /\ fs[<<D_d, N_a_ts_dump>>] = <<HEADER, ERROR_LINE, SUMMARY>>
    /\ fs[<<D_d, N_e_rm_dump>>] = <<HEADER, TRANSCRIPT, SUMMARY>>
    /\ ~OnDisk(<<D_d, N_a_ts_txt>>)

\* the marker and the dump the pipeline of path p writes
WrittenMarker(p) == IF CategoryOf[NameOf(p)] = "av" THEN av_txt(p) ELSE doc_txt_file(p)
WrittenDump(p) == IF CategoryOf[NameOf(p)] = "av" THEN av_dump(p) ELSE doc_dump_file(p)

\* C36: two eligible paths that name distinct files of the same directory
\* have distinct marker paths and distinct dump paths.
C36_MarkersInjective ==
    mainpc = "returned"
        => \A i, j \in DOMAIN eligible :
              (/\ Components(eligible[i]) # Components(eligible[j])
               /\ FolderOf(eligible[i]) = FolderOf(eligible[j]))
                  => /\ Components(WrittenMarker(eligible[i]))
                          # Components(WrittenMarker(eligible[j]))
                     /\ Components(WrittenDump(eligible[i]))
                          # Components(WrittenDump(eligible[j]))

\* C37: within one run of main no two transcribe/OCR calls are made for the
\* same input path, whatever the file list on the command line.
C37_OncePerRun ==
    \A i, j \in DOMAIN invocations :
        (i < j /\ invocations[i].run = invocations[j].run)
            => invocations[i].path # invocations[j].path

\* C38: with the OCR engine unavailable process_document_files makes a pass
\* over every file it is given and each pass writes the marker, empty; the
\* marker stays, and a later run, with the engine available or not, does not
\* find the file eligible and makes no OCR call for it.
C38_UnavailableStillMarks ==
    /\ \A i \in DOMAIN invocations :
            LET r == invocations[i] IN
            r.result = "unavailable" =>
                /\ r.call = "ocr"
                /\ OnDisk(MarkerKey(r.path))
                /\ i = Len(invocations) => fs[MarkerKey(r.path)] = <<"">>
                /\ (r.run < run /\ Scanned) => r.path \notin Range(eligible)
                /\ \A j \in DOMAIN invocations :
                        invocations[j].run > r.run => invocations[j].path # r.path
    /\ (~flags.easyocr_available /\ mainpc = "doc_loop") =>
            /\ Len(RunCalls(run, "ocr")) = cur - 1
            /\ \A k \in 1..(cur - 1) :
                    /\ RunCalls(run, "ocr")[k].path = doc_files[k]
                    /\ RunCalls(run, "ocr")[k].result = "unavailable"
    /\ (~flags.easyocr_available /\ mainpc = "wrapup") =>
            /\ Len(RunCalls(run, "ocr")) = Len(doc_files)
            /\ \A k \in DOMAIN doc_files :
                    /\ RunCalls(run, "ocr")[k].path = doc_files[k]
                    /\ RunCalls(run, "ocr")[k].result = "unavailable"
                    /\ OnDisk(MarkerKey(doc_files[k]))

\* C38 witness: the first run had no OCR engine and left the empty marker of
\* b.pdf; the second run has the engine, has ended, and made no OCR call
C38_Witness ==
    /\ run = 2
    /\ flags.easyocr_available
    /\ mainpc = "exited"
    /\ Len(RunCalls(1, "ocr")) = 1
    /\ RunCalls(1, "ocr")[1].result = "unavailable"
    /\ RunCalls(1, "ocr")[1].path = join(D_d, N_b_pdf)
    /\ fs[<<D_d, N_b_pdf_txt>>] = <<"">>
    /\ RunCalls(2, "ocr") = <<>>

\* a page whose own text is empty or whitespace only
BlankPage(k) == \A i \in DOMAIN host.pages[k].text : host.pages[k].text[i] \in {" ", NL}

\* the numbers (from 1) of the blank pages among the first n, in page order
BlankPagesUpTo(n) == SelectSeq([k \in 1..n |-> k], BlankPage)

\* the block of page k (numbered from 1) in the result
RECURSIVE ResultOfPages(_)
ResultOfPages(k) ==
    LET head == <<"-", "-", "-", " ", "P", "a", "g", "e", " ">> \o str(k) \o <<" ">>
        body == IF BlankPage(k)
                THEN <<"(", "O", "C", "R", ")", " ", "-", "-", "-", NL>>
                         \o str_join(<<NL>>, host.pages[k].results)
                ELSE <<"(", "d", "i", "r", "e", "c", "t", " ", "t", "e", "x", "t", ")", " ",
                       "-", "-", "-", NL>> \o host.pages[k].text
        blk  == head \o body \o <<NL>>
    IN  IF k = 1 THEN blk ELSE ResultOfPages(k - 1) \o <<NL>> \o blk

\* a readtext call of this document raised
OcrRaised == \E i \in DOMAIN invocations : invocations[i].result # "ok"

\* C39: the pages of a PDF are handled in page order, one block each;
\* readtext is called for exactly the pages whose own text is empty or
\* whitespace only, in page order, and for no other page; the text returned
\* is one block per page, numbered from 1 and tagged "direct text" or "OCR",
\* the blocks joined by newlines.  (A readtext call that raises ends the
\* function with the error text at that page.)
C39_PagePolicy ==
    /\ [](mainpc \in {"pdf_page", "pdf_ocr", "pdf_join"} => Len(listing) = cur)
    /\ [](mainpc = "pdf_ocr" => BlankPage(cur + 1))
    /\ []([i \in DOMAIN invocations |-> invocations[i].page + 1]
              = BlankPagesUpTo(IF mainpc = "returned" /\ OcrRaised THEN cur + 1 ELSE cur))
    /\ [](mainpc = "pdf_join" => cur = Len(host.pages))
    /\ []((mainpc = "returned" /\ ~OcrRaised) =>
              /\ cur = Len(host.pages)
              /\ retval = <<IF host.pages = <<>> THEN <<>>
                            ELSE ResultOfPages(Len(host.pages))>>)
    /\ [][cur' = cur \/ (cur' = cur + 1 /\ Len(listing') = Len(listing) + 1
                                        /\ cur' <= Len(host.pages))]_vars

\* C39 witness: a document of three pages, the first with text, the second
\* whitespace only, the third empty, has been processed: readtext was called
\* for pages 2 and 3 only and the text has been returned
C39_Witness ==
    /\ mainpc = "returned"
    /\ Len(host.pages) = 3
    /\ host.pages[1].text = <<" ", "T", NL>>
    /\ host.pages[2].text = <<" ", NL>>
    /\ host.pages[3].text = <<>>
    /\ host.pages[2].results # <<>>
    /\ [i \in DOMAIN invocations |-> invocations[i].page] = <<1, 2>>
    /\ ~OcrRaised
    /\ retval = <<ResultOfPages(3)>>

==============================================================================
